---------------------------- MODULE Spec2Model ----------------------------
(***************************************************************************)
(* aws-lambda-decorators: the extract decorator, the Parameter path walk,  *)
(* the decoders and the validators.                                        *)
(*                                                                         *)
(* Python values are tagged records.  A str is a sequence of one-character *)
(* strings, so that find, slicing, replace, split and the substring test   *)
(* `in` are computed as Python computes them.  A dict is a function from   *)
(* keys (strs) to values, a list a sequence of values.                     *)
(***************************************************************************)
EXTENDS Integers, Sequences, FiniteSets, TLC

VARIABLES
    parameters,           \* the Parameter objects given to extract (mutable)
    group_errors,         \* extract(..., group_errors)
    allow_none_defaults,  \* extract(..., allow_none_defaults)
    json_cache,           \* functools.lru_cache of decode_json
    jwt_cache,            \* functools.lru_cache of decode_jwt
    pc,                   \* position of the running wrapper
    args,                 \* the positional arguments of the running call
    kwargs,               \* the keyword arguments of the running call (mutated by wrapper)
    idx,                  \* position of `for param in parameters`
    errors,               \* the wrapper's local list `errors`
    response,             \* what the call gave its caller
    handler_calls,        \* invocations of the wrapped func in this call
    handler_args,         \* what func was invoked with
    trace,                \* per parameter processed in this call: what happened
    log,                  \* LOGGER.error records of this call
    ncalls,               \* calls made so far
    arg_dictionary,       \* the wrapper's local arg_dictionary
    call_kwargs,          \* the keyword arguments the caller gave
    func_outcome,         \* what the wrapped func did: returned or raised
    probe                 \* one application of a pure function (SpecWalk, ...)

vars == <<parameters, group_errors, allow_none_defaults, json_cache, jwt_cache,
          pc, args, kwargs, idx, errors, response, handler_calls,
          handler_args, trace, log, ncalls, arg_dictionary, call_kwargs,
          func_outcome, probe>>

-----------------------------------------------------------------------------
(* Python values *)

PyNone == [t |-> "none"]
PyInt(n) == [t |-> "int", i |-> n]
PyStr(s) == [t |-> "str", s |-> s]
PyList(l) == [t |-> "list", l |-> l]
PyDict(m) == [t |-> "dict", m |-> m]

EmptyDict == PyDict([k \in {} |-> PyNone])
Dict1(k, v) == PyDict([x \in {k} |-> v])

(* the outcome of an expression: a value, or an exception raised *)
Ok(v) == [ok |-> TRUE, val |-> v]
Raise(e) == [ok |-> FALSE, exc |-> e]

(* bool(value) *)
Truthy(v) ==
    CASE v.t = "none" -> FALSE
      [] v.t = "int" -> v.i # 0
      [] v.t = "str" -> v.s # <<>>
      [] v.t = "list" -> v.l # <<>>
      [] v.t = "dict" -> DOMAIN v.m # {}

(* sub in s, for strs *)
IsSubstring(sub, s) ==
    \E i \in 0..(Len(s) - Len(sub)) : SubSeq(s, i + 1, i + Len(sub)) = sub

(* key in container, key a str *)
Contains(container, key) ==
    CASE container.t = "dict" -> Ok(key \in DOMAIN container.m)
      [] container.t = "str" -> Ok(IsSubstring(key, container.s))
      [] container.t = "list" ->
            Ok(\E j \in 1..Len(container.l) : container.l[j] = PyStr(key))
      [] OTHER -> Raise("TypeError")

(* container[key], key a str *)
GetItemStr(container, key) ==
    CASE container.t = "dict" ->
            IF key \in DOMAIN container.m THEN Ok(container.m[key])
            ELSE Raise("KeyError")
      [] OTHER -> Raise("TypeError")

(* container[n], n a non-negative int *)
GetItemInt(container, n) ==
    CASE container.t = "list" ->
            IF n < Len(container.l) THEN Ok(container.l[n + 1])
            ELSE Raise("IndexError")
      [] container.t = "str" ->
            IF n < Len(container.s) THEN Ok(PyStr(<<container.s[n + 1]>>))
            ELSE Raise("IndexError")
      [] container.t = "dict" -> Raise("KeyError")
      [] OTHER -> Raise("TypeError")

-----------------------------------------------------------------------------
(* str methods *)

PATH_DIVIDER == "/"
ANNOTATIONS_START == "["
ANNOTATIONS_END == "]"

(* s.find(c), c one character: 0-based position of the first c, or -1 *)
Find(s, c) ==
    IF \E i \in 1..Len(s) : s[i] = c
    THEN (CHOOSE i \in 1..Len(s) : s[i] = c /\ \A j \in 1..(i - 1) : s[j] # c) - 1
    ELSE -1

(* s[a:b] for 0 <= a, 0 <= b <= len(s) *)
Slice(s, a, b) == SubSeq(s, a + 1, b)

(* s.replace(old, ""), old not empty *)
RECURSIVE Remove(_, _)
Remove(s, old) ==
    IF Len(s) < Len(old) THEN s
    ELSE IF SubSeq(s, 1, Len(old)) = old
         THEN Remove(SubSeq(s, Len(old) + 1, Len(s)), old)
         ELSE <<s[1]>> \o Remove(Tail(s), old)

(* s.split(c), c one character *)
RECURSIVE Split(_, _)
Split(s, c) ==
    IF Find(s, c) = -1 THEN <<s>>
    ELSE <<SubSeq(s, 1, Find(s, c))>> \o Split(SubSeq(s, Find(s, c) + 2, Len(s)), c)

Digits == {"0", "1", "2", "3", "4", "5", "6", "7", "8", "9"}

(* U+00B2, written as one character of the model: a digit for isdigit()   *)
(* that is no decimal digit                                                *)
SUPERSCRIPT_TWO == "^2"

(* s is not empty and made of the decimal digits 0-9 *)
IsDecimal(s) == s # <<>> /\ \A i \in 1..Len(s) : s[i] \in Digits

(* s.isdigit() *)
IsDigit(s) == s # <<>> /\ \A i \in 1..Len(s) : s[i] \in Digits \cup {SUPERSCRIPT_TWO}

DigitVal(c) ==
    CASE c = "0" -> 0 [] c = "1" -> 1 [] c = "2" -> 2 [] c = "3" -> 3
      [] c = "4" -> 4 [] c = "5" -> 5 [] c = "6" -> 6 [] c = "7" -> 7
      [] c = "8" -> 8 [] c = "9" -> 9

(* int(s) for a str of digits *)
RECURSIVE ToInt(_)
ToInt(s) ==
    IF s = <<>> THEN 0
    ELSE 10 * ToInt(SubSeq(s, 1, Len(s) - 1)) + DigitVal(s[Len(s)])

(* int(s) for a str s with s.isdigit() *)
IntOf(s) == IF IsDecimal(s) THEN Ok(ToInt(s)) ELSE Raise("ValueError")


-----------------------------------------------------------------------------
(* names used by the handlers and the inputs of the model *)

EVENT == <<"e", "v", "e", "n", "t">>
CONTEXT == <<"c", "o", "n", "t", "e", "x", "t">>
JSON == <<"j", "s", "o", "n">>
JWT == <<"j", "w", "t">>

-----------------------------------------------------------------------------
(* decoders.py *)

(* functools.lru_cache() keeps at most maxsize entries *)
LRU_MAXSIZE == 128

EmptyCache == [entries |-> <<>>, hits |-> 0, misses |-> 0]

Hashable(v) == v.t \in {"none", "int", "str"}

CachePos(cache, v) ==
    IF \E j \in 1..Len(cache.entries) : cache.entries[j].key = v
    THEN CHOOSE j \in 1..Len(cache.entries) : cache.entries[j].key = v
    ELSE 0

DropAt(seq, j) == SubSeq(seq, 1, j - 1) \o SubSeq(seq, j + 1, Len(seq))

(* mutant: a hit leaves the entry where it is in the order of use *)
LruHit_NoRefresh(cache, j) ==
    [r |-> Ok(cache.entries[j].val), cache |-> [cache EXCEPT !.hits = @ + 1]]

(* mutant: a hit returns the value of the oldest entry *)
LruHit_OldestEntry(cache, j) ==
    [r |-> Ok(cache.entries[1].val),
     cache |-> [cache EXCEPT !.entries = Append(DropAt(@, j), cache.entries[j]),
                             !.hits = @ + 1]]

(* a call of an lru_cache-wrapped Func(value): [r, cache].  A hit returns   *)
(* the stored object and makes the entry the most recent; a miss runs Func *)
(* and stores its result, evicting the least recent entry of a full cache; *)
(* an exception stores nothing.                                            *)
LruHit(cache, j) ==
    [r |-> Ok(cache.entries[j].val),
     cache |-> [cache EXCEPT !.entries = Append(DropAt(@, j), cache.entries[j]),
                             !.hits = @ + 1]]

(* mutant: a full cache drops nothing *)
LruKept_Unbounded(cache) == cache.entries

LruKept(cache) ==
    IF Len(cache.entries) >= LRU_MAXSIZE THEN Tail(cache.entries) ELSE cache.entries

LruMiss(cache, v, res) ==
    IF res.ok
    THEN [r |-> res,
          cache |-> [cache EXCEPT !.entries = Append(LruKept(cache), [key |-> v, val |-> res.val]),
                                  !.misses = @ + 1]]
    ELSE [r |-> res, cache |-> [cache EXCEPT !.misses = @ + 1]]

(* the call of a function wrapped by lru_cache on the argument v, res      *)
(* being what the wrapped function gives on v                              *)
LruCall(cache, v, res) ==
    IF ~Hashable(v) THEN [r |-> Raise("TypeError"), cache |-> cache]
    ELSE IF CachePos(cache, v) # 0 THEN LruHit(cache, CachePos(cache, v))
    ELSE LruMiss(cache, v, res)

(* json.loads on the texts of the model: every other text the model uses  *)
(* is malformed JSON                                                       *)
JsonLoads(v) ==
    IF v.t # "str" THEN Raise("TypeError")
    ELSE CASE v.s = <<"{", "}">> -> Ok(EmptyDict)
           [] v.s = <<"{", "\"", "c", "\"", ":", "1", "}">> -> Ok(Dict1(<<"c">>, PyInt(1)))
           [] v.s = <<"[", "1", "]">> -> Ok(PyList(<<PyInt(1)>>))
           [] v.s = <<"n", "u", "l", "l">> -> Ok(PyNone)
           [] IsDecimal(v.s) /\ (Len(v.s) = 1 \/ v.s[1] # "0") -> Ok(PyInt(ToInt(v.s)))
           [] OTHER -> Raise("JSONDecodeError")

(* jwt.decode(value, verify=False) on the tokens of the model *)
JwtDecode(v) ==
    IF v.t # "str" THEN Raise("DecodeError")
    ELSE CASE v.s = <<"h", ".", "p", ".", "s">> -> Ok(Dict1(<<"s", "u", "b">>, PyStr(<<"u">>)))
           [] OTHER -> Raise("DecodeError")

decode_json(cache, value) == LruCall(cache, value, JsonLoads(value))

decode_jwt(cache, value) == LruCall(cache, value, JwtDecode(value))

(* decode(annotation, value) with the two caches: [r, json_cache, jwt_cache, log] *)
Decoded(r, jc, wc, lg) == [r |-> r, json_cache |-> jc, jwt_cache |-> wc, log |-> lg]

DecodedJson(c, wc) == Decoded(c.r, c.cache, wc, <<>>)

DecodedJwt(jc, c) == Decoded(c.r, jc, c.cache, <<>>)

MissingDecodeLog(annotation) ==
    [msg |-> "Missing decode function for annotation: %s", annotation |-> annotation]

(* value[int(annotation)], line 36 *)
DecodedItem(value, n, jc, wc) ==
    IF ~n.ok THEN Decoded(n, jc, wc, <<>>)
    ELSE Decoded(GetItemInt(value, n.val), jc, wc, <<>>)

decode(annotation, value, jc, wc) ==
    IF ~Truthy(annotation) THEN Decoded(Ok(value), jc, wc, <<>>)
    ELSE IF IsDigit(annotation.s)
    THEN DecodedItem(value, IntOf(annotation.s), jc, wc)
    ELSE IF annotation.s = JSON THEN DecodedJson(decode_json(jc, value), wc)
    ELSE IF annotation.s = JWT THEN DecodedJwt(jc, decode_jwt(wc, value))
    ELSE Decoded(Ok(value), jc, wc, <<MissingDecodeLog(annotation.s)>>)

-----------------------------------------------------------------------------
(* classes.py: Parameter *)

Contains1(s, c) == \E i \in 1..Len(s) : s[i] = c

(* mutant: the slice starts at the bracket *)
AnnotationText_FromBracket(key) ==
    Slice(key, Find(key, ANNOTATIONS_START), Find(key, ANNOTATIONS_END))

(* key[key.find(ANNOTATIONS_START) + 1:key.find(ANNOTATIONS_END)] *)
AnnotationText(key) ==
    Slice(key, Find(key, ANNOTATIONS_START) + 1, Find(key, ANNOTATIONS_END))

(* Parameter.get_annotations_from_key(key): [real_key, annotation] *)
get_annotations_from_key(key) ==
    IF Contains1(key, ANNOTATIONS_START) /\ Contains1(key, ANNOTATIONS_END)
    THEN [real_key |-> Remove(key, <<ANNOTATIONS_START>> \o AnnotationText(key)
                                     \o <<ANNOTATIONS_END>>),
          annotation |-> PyStr(AnnotationText(key))]
    ELSE [real_key |-> key, annotation |-> PyNone]

(* filter(lambda item: item != "", self._path.split(PATH_DIVIDER)) *)
PathKeys(path) == SelectSeq(Split(path, PATH_DIVIDER), LAMBDA item : item # <<>>)

(* one iteration of the loop of extract_value, lines 181-185, on the       *)
(* loop's state st = [r (dict_value, or the exception raised), bound and   *)
(* real_key (the local real_key), json_cache, jwt_cache, log]              *)
WalkDecoded(st, d) ==
    [st EXCEPT !.r = d.r, !.json_cache = d.json_cache, !.jwt_cache = d.jwt_cache,
               !.log = @ \o d.log]

WalkRaw(st, ak, raw) ==
    IF ~raw.ok THEN [st EXCEPT !.r = raw]
    ELSE WalkDecoded(st, decode(ak.annotation, raw.val, st.json_cache, st.jwt_cache))


(* a walk that indexes the current value without looking for the key first *)
WalkPresent_Unguarded(self, st, ak, present) ==
    IF ~present.ok THEN [st EXCEPT !.r = present]
    ELSE IF present.val THEN WalkRaw(st, ak, GetItemStr(st.r.val, ak.real_key))
    ELSE [st EXCEPT !.r = Raise("KeyError")]

(* mutant: a value that is found but is None or empty gives way to the     *)
(* default                                                                 *)
WalkPresent_DefaultForEmpty(self, st, ak, present) ==
    IF ~present.ok THEN [st EXCEPT !.r = present]
    ELSE IF present.val /\ GetItemStr(st.r.val, ak.real_key).ok
            /\ Truthy(GetItemStr(st.r.val, ak.real_key).val)
    THEN WalkRaw(st, ak, GetItemStr(st.r.val, ak.real_key))
    ELSE [st EXCEPT !.r = Ok(self.default)]

WalkPresent(self, st, ak, present) ==
    IF ~present.ok THEN [st EXCEPT !.r = present]
    ELSE IF present.val THEN WalkRaw(st, ak, GetItemStr(st.r.val, ak.real_key))
    ELSE [st EXCEPT !.r = Ok(self.default)]

WalkKey(self, st, ak) ==
    WalkPresent(self, [st EXCEPT !.bound = TRUE, !.real_key = ak.real_key], ak,
                IF Truthy(st.r.val) THEN Contains(st.r.val, ak.real_key) ELSE Ok(FALSE))

WalkStep(self, st, path_key) == WalkKey(self, st, get_annotations_from_key(path_key))

RECURSIVE WalkLoop(_, _, _, _)
WalkLoop(self, st, keys, i) ==
    IF i > Len(keys) \/ ~st.r.ok THEN st
    ELSE WalkLoop(self, WalkStep(self, st, keys[i]), keys, i + 1)

WalkStart(dict_value, jc, wc) ==
    [r |-> Ok(dict_value), bound |-> FALSE, real_key |-> <<>>,
     json_cache |-> jc, jwt_cache |-> wc, log |-> <<>>]

Extracted(st, r, name) ==
    [r |-> r, name |-> name, json_cache |-> st.json_cache,
     jwt_cache |-> st.jwt_cache, log |-> st.log]

(* extract_value lines 187-190 *)
WalkEnd(self, st) ==
    IF ~st.r.ok \/ Truthy(self.name) THEN Extracted(st, st.r, self.name)
    ELSE IF ~st.bound THEN Extracted(st, Raise("UnboundLocalError"), self.name)
    ELSE Extracted(st, st.r, PyStr(st.real_key))

(* Parameter.extract_value(dict_value):                                    *)
(* [r, name (self._name afterwards), json_cache, jwt_cache, log]           *)
extract_value(self, dict_value, jc, wc) ==
    IF self.path.t # "str"
    THEN Extracted(WalkStart(dict_value, jc, wc), Raise("AttributeError"), self.name)
    ELSE WalkEnd(self, WalkLoop(self, WalkStart(dict_value, jc, wc),
                                PathKeys(self.path.s), 1))

-----------------------------------------------------------------------------
(* validators.py *)

CURRENCIES == {
    <<"A", "E", "D">>, <<"A", "F", "N">>, <<"A", "L", "L">>, <<"A", "M", "D">>,
    <<"A", "N", "G">>, <<"A", "O", "A">>, <<"A", "R", "S">>, <<"A", "U", "D">>,
    <<"A", "W", "G">>, <<"A", "Z", "N">>, <<"B", "A", "M">>, <<"B", "B", "D">>,
    <<"B", "D", "T">>, <<"B", "G", "N">>, <<"B", "H", "D">>, <<"B", "I", "F">>,
    <<"B", "M", "D">>, <<"B", "N", "D">>, <<"B", "O", "B">>, <<"B", "O", "V">>,
    <<"B", "R", "L">>, <<"B", "S", "D">>, <<"B", "T", "N">>, <<"B", "W", "P">>,
    <<"B", "Y", "N">>, <<"B", "Z", "D">>, <<"C", "A", "D">>, <<"C", "D", "F">>,
    <<"C", "H", "E">>, <<"C", "H", "F">>, <<"C", "H", "W">>, <<"C", "L", "F">>,
    <<"C", "L", "P">>, <<"C", "N", "Y">>, <<"C", "O", "P">>, <<"C", "O", "U">>,
    <<"C", "R", "C">>, <<"C", "U", "C">>, <<"C", "U", "P">>, <<"C", "V", "E">>,
    <<"C", "Z", "K">>, <<"D", "J", "F">>, <<"D", "K", "K">>, <<"D", "O", "P">>,
    <<"D", "Z", "D">>, <<"E", "G", "P">>, <<"E", "R", "N">>, <<"E", "T", "B">>,
    <<"E", "U", "R">>, <<"F", "J", "D">>, <<"F", "K", "P">>, <<"G", "B", "P">>,
    <<"G", "E", "L">>, <<"G", "H", "S">>, <<"G", "I", "P">>, <<"G", "M", "D">>,
    <<"G", "N", "F">>, <<"G", "T", "Q">>, <<"G", "Y", "D">>, <<"H", "K", "D">>,
    <<"H", "N", "L">>, <<"H", "R", "K">>, <<"H", "T", "G">>, <<"H", "U", "F">>,
    <<"I", "D", "R">>, <<"I", "L", "S">>, <<"I", "N", "R">>, <<"I", "Q", "D">>,
    <<"I", "R", "R">>, <<"I", "S", "K">>, <<"J", "M", "D">>, <<"J", "O", "D">>,
    <<"J", "P", "Y">>, <<"K", "E", "S">>, <<"K", "G", "S">>, <<"K", "H", "R">>,
    <<"K", "M", "F">>, <<"K", "P", "W">>, <<"K", "R", "W">>, <<"K", "W", "D">>,
    <<"K", "Y", "D">>, <<"K", "Z", "T">>, <<"L", "A", "K">>, <<"L", "B", "P">>,
    <<"L", "K", "R">>, <<"L", "R", "D">>, <<"L", "S", "L">>, <<"L", "Y", "D">>,
    <<"M", "A", "D">>, <<"M", "D", "L">>, <<"M", "G", "A">>, <<"M", "K", "D">>,
    <<"M", "M", "K">>, <<"M", "N", "T">>, <<"M", "O", "P">>, <<"M", "R", "U">>,
    <<"M", "U", "R">>, <<"M", "V", "R">>, <<"M", "W", "K">>, <<"M", "X", "N">>,
    <<"M", "X", "V">>, <<"M", "Y", "R">>, <<"M", "Z", "N">>, <<"N", "A", "D">>,
    <<"N", "G", "N">>, <<"N", "I", "O">>, <<"N", "O", "K">>, <<"N", "P", "R">>,
    <<"N", "Z", "D">>, <<"O", "M", "R">>, <<"P", "A", "B">>, <<"P", "E", "N">>,
    <<"P", "G", "K">>, <<"P", "H", "P">>, <<"P", "K", "R">>, <<"P", "L", "N">>,
    <<"P", "Y", "G">>, <<"Q", "A", "R">>, <<"R", "O", "N">>, <<"R", "S", "D">>,
    <<"R", "U", "B">>, <<"R", "W", "F">>, <<"S", "A", "R">>, <<"S", "B", "D">>,
    <<"S", "C", "R">>, <<"S", "D", "G">>, <<"S", "E", "K">>, <<"S", "G", "D">>,
    <<"S", "H", "P">>, <<"S", "L", "L">>, <<"S", "O", "S">>, <<"S", "R", "D">>,
    <<"S", "S", "P">>, <<"S", "T", "N">>, <<"S", "V", "C">>, <<"S", "Y", "P">>,
    <<"S", "Z", "L">>, <<"T", "H", "B">>, <<"T", "J", "S">>, <<"T", "M", "T">>,
    <<"T", "N", "D">>, <<"T", "O", "P">>, <<"T", "R", "Y">>, <<"T", "T", "D">>,
    <<"T", "W", "D">>, <<"T", "Z", "S">>, <<"U", "A", "H">>, <<"U", "G", "X">>,
    <<"U", "S", "D">>, <<"U", "S", "N">>, <<"U", "Y", "I">>, <<"U", "Y", "U">>,
    <<"U", "Y", "W">>, <<"U", "Z", "S">>, <<"V", "E", "S">>, <<"V", "N", "D">>,
    <<"V", "U", "V">>, <<"W", "S", "T">>, <<"X", "A", "F">>, <<"X", "C", "D">>,
    <<"X", "D", "R">>, <<"X", "O", "F">>, <<"X", "P", "F">>, <<"X", "S", "U">>,
    <<"X", "U", "A">>, <<"Y", "E", "R">>, <<"Z", "A", "R">>, <<"Z", "M", "W">>,
    <<"Z", "W", "L">>}

UpperChar(c) ==
    CASE c = "a" -> "A" [] c = "b" -> "B" [] c = "c" -> "C" [] c = "d" -> "D"
      [] c = "e" -> "E" [] c = "f" -> "F" [] c = "g" -> "G" [] c = "h" -> "H"
      [] c = "i" -> "I" [] c = "j" -> "J" [] c = "k" -> "K" [] c = "l" -> "L"
      [] c = "m" -> "M" [] c = "n" -> "N" [] c = "o" -> "O" [] c = "p" -> "P"
      [] c = "q" -> "Q" [] c = "r" -> "R" [] c = "s" -> "S" [] c = "t" -> "T"
      [] c = "u" -> "U" [] c = "v" -> "V" [] c = "w" -> "W" [] c = "x" -> "X"
      [] c = "y" -> "Y" [] c = "z" -> "Z"
      [] OTHER -> c

(* s.upper() *)
Upper(s) == [i \in 1..Len(s) |-> UpperChar(s[i])]

RECURSIVE DigitCount(_)
DigitCount(n) == IF n < 10 THEN 1 ELSE 1 + DigitCount(n \div 10)

(* len(repr(value)) and len(str(value)); the strs of the model hold no     *)
(* quote that would need escaping                                          *)
RECURSIVE ReprLen(_)
RECURSIVE SumReprList(_, _)
RECURSIVE SumReprDict(_, _)
SumReprList(l, i) ==
    IF i > Len(l) THEN 0 ELSE ReprLen(l[i]) + SumReprList(l, i + 1)
SumReprDict(m, keys) ==
    IF keys = {} THEN 0
    ELSE LET k == CHOOSE x \in keys : TRUE
         IN (Len(k) + 2) + 2 + ReprLen(m[k]) + SumReprDict(m, keys \ {k})
ReprLen(v) ==
    CASE v.t = "none" -> 4
      [] v.t = "int" -> IF v.i < 0 THEN 1 + DigitCount(0 - v.i) ELSE DigitCount(v.i)
      [] v.t = "str" -> Len(v.s) + 2
      [] v.t = "list" ->
            2 + SumReprList(v.l, 1) + (IF Len(v.l) > 1 THEN 2 * (Len(v.l) - 1) ELSE 0)
      [] v.t = "dict" ->
            2 + SumReprDict(v.m, DOMAIN v.m)
              + (IF Cardinality(DOMAIN v.m) > 1 THEN 2 * (Cardinality(DOMAIN v.m) - 1) ELSE 0)

StrLen(v) == IF v.t = "str" THEN Len(v.s) ELSE ReprLen(v)

(* the regular expressions of the model *)
RE_DIGITS == <<"[", "0", "-", "9", "]", "+">>
RE_EMPTY == <<>>

(* re.compile(regex).fullmatch(s) is not None *)
FullMatch(regex, s) ==
    CASE regex = RE_DIGITS -> IsDecimal(s)
      [] regex = RE_EMPTY -> s = <<>>

(* the date format of the model *)
FMT_YEAR == <<"%", "Y">>

(* datetime.datetime.strptime(s, date_format) succeeds *)
StrptimeOk(date_format, s) ==
    CASE date_format = FMT_YEAR -> Len(s) = 4 /\ IsDecimal(s) /\ ToInt(s) >= 1

(* isinstance(value, valid_type), the type given by name *)
IsInstance(v, type_name) ==
    CASE type_name = <<"s", "t", "r">> -> v.t = "str"
      [] type_name = <<"i", "n", "t">> -> v.t = "int"
      [] type_name = <<"l", "i", "s", "t">> -> v.t = "list"
      [] type_name = <<"d", "i", "c", "t">> -> v.t = "dict"
      [] OTHER -> FALSE

(* Schema(type).validate(value) == value; SchemaError gives False *)
SchemaAccepts(schema, v) == IsInstance(v, schema.s)

(* <Validator>.validate(value): Ok(TRUE) when the value passes, Ok(FALSE)  *)
(* when it is rejected, or the exception the validator raises              *)
Mandatory_validate(value) ==
    Ok(value.t # "none" /\ StrLen(value) > 0)

RegexValidator_validate(self, value) ==
    IF value.t = "none" THEN Ok(TRUE)
    ELSE IF value.t # "str" THEN Raise("TypeError")
    ELSE Ok(FullMatch(self.condition.s, value.s))

SchemaValidator_validate(self, value) ==
    IF value.t = "none" THEN Ok(TRUE) ELSE Ok(SchemaAccepts(self.condition, value))


(* a Minimum without the test for None of line 160 *)
Minimum_validate_RejectsNone(self, value) ==
    IF value.t = "int" THEN Ok(self.condition.i <= value.i)
    ELSE Ok(FALSE)

Minimum_validate(self, value) ==
    IF value.t = "none" THEN Ok(TRUE)
    ELSE IF value.t = "int" THEN Ok(self.condition.i <= value.i)
    ELSE Ok(FALSE)

Maximum_validate(self, value) ==
    IF value.t = "none" THEN Ok(TRUE)
    ELSE IF value.t = "int" THEN Ok(self.condition.i >= value.i)
    ELSE Ok(FALSE)

MinLength_validate(self, value) ==
    IF value.t = "none" THEN Ok(TRUE) ELSE Ok(StrLen(value) >= self.condition.i)

MaxLength_validate(self, value) ==
    IF value.t = "none" THEN Ok(TRUE) ELSE Ok(StrLen(value) <= self.condition.i)

Type_validate(self, value) ==
    IF value.t = "none" THEN Ok(TRUE) ELSE Ok(IsInstance(value, self.condition.s))

EnumValidator_validate(self, value) ==
    IF value.t = "none" THEN Ok(TRUE)
    ELSE Ok(\E j \in 1..Len(self.condition.l) : self.condition.l[j] = value)

NonEmpty_validate(value) ==
    IF value.t = "none" \/ value = PyInt(0) THEN Ok(TRUE) ELSE Ok(Truthy(value))

DateValidator_validate(self, value) ==
    IF value.t = "none" THEN Ok(TRUE)
    ELSE IF value.t # "str" THEN Raise("TypeError")
    ELSE Ok(StrptimeOk(self.condition.s, value.s))

CurrencyValidator_validate(value) ==
    IF value.t = "none" THEN Ok(TRUE)
    ELSE IF value.t # "str" THEN Raise("AttributeError")
    ELSE Ok(Upper(value.s) \in CURRENCIES)

(* validator.validate(value), dispatched on the validator's class *)
validator_validate(validator, value) ==
    CASE validator.kind = "Mandatory" -> Mandatory_validate(value)
      [] validator.kind = "RegexValidator" -> RegexValidator_validate(validator, value)
      [] validator.kind = "SchemaValidator" -> SchemaValidator_validate(validator, value)
      [] validator.kind = "Minimum" -> Minimum_validate(validator, value)
      [] validator.kind = "Maximum" -> Maximum_validate(validator, value)
      [] validator.kind = "MinLength" -> MinLength_validate(validator, value)
      [] validator.kind = "MaxLength" -> MaxLength_validate(validator, value)
      [] validator.kind = "Type" -> Type_validate(validator, value)
      [] validator.kind = "EnumValidator" -> EnumValidator_validate(validator, value)
      [] validator.kind = "NonEmpty" -> NonEmpty_validate(value)
      [] validator.kind = "DateValidator" -> DateValidator_validate(validator, value)
      [] validator.kind = "CurrencyValidator" -> CurrencyValidator_validate(value)

(* the ERROR_MESSAGE of each class: its text, and whether it formats the   *)
(* value and the condition in                                              *)
ERROR_MESSAGE_OF(kind) ==
    CASE kind = "Mandatory" ->
            [text |-> "Missing mandatory value", value |-> FALSE, condition |-> FALSE]
      [] kind = "RegexValidator" ->
            [text |-> "'{value}' does not conform to regular expression '{condition}'",
             value |-> TRUE, condition |-> TRUE]
      [] kind = "SchemaValidator" ->
            [text |-> "'{value}' does not validate against schema '{condition}'",
             value |-> TRUE, condition |-> TRUE]
      [] kind = "Minimum" ->
            [text |-> "'{value}' is less than minimum value '{condition}'",
             value |-> TRUE, condition |-> TRUE]
      [] kind = "Maximum" ->
            [text |-> "'{value}' is greater than maximum value '{condition}'",
             value |-> TRUE, condition |-> TRUE]
      [] kind = "MinLength" ->
            [text |-> "'{value}' is shorter than minimum length '{condition}'",
             value |-> TRUE, condition |-> TRUE]
      [] kind = "MaxLength" ->
            [text |-> "'{value}' is longer than maximum length '{condition}'",
             value |-> TRUE, condition |-> TRUE]
      [] kind = "Type" ->
            [text |-> "'{value}' is not of type '{condition.__name__}'",
             value |-> TRUE, condition |-> TRUE]
      [] kind = "EnumValidator" ->
            [text |-> "'{value}' is not in list '{condition}'",
             value |-> TRUE, condition |-> TRUE]
      [] kind = "NonEmpty" ->
            [text |-> "Value is empty", value |-> FALSE, condition |-> FALSE]
      [] kind = "DateValidator" ->
            [text |-> "'{value}' is not a '{condition}' date",
             value |-> TRUE, condition |-> TRUE]
      [] kind = "CurrencyValidator" ->
            [text |-> "'{value}' is not a valid currency code.",
             value |-> TRUE, condition |-> FALSE]

(* Validator.message(value): the template with value and condition        *)
(* formatted in where the template names them                              *)
Validator_message(self, value) ==
    [text |-> self.error_message.text,
     value |-> IF self.error_message.value THEN <<value>> ELSE <<>>,
     condition |-> IF self.error_message.condition THEN <<self.condition>> ELSE <<>>,
     formatted |-> TRUE]

(* validator.ERROR_MESSAGE, the template as it stands *)
Validator_ERROR_MESSAGE(validator) ==
    [text |-> ERROR_MESSAGE_OF(validator.kind).text, value |-> <<>>, condition |-> <<>>,
     formatted |-> ~(ERROR_MESSAGE_OF(validator.kind).value
                      \/ ERROR_MESSAGE_OF(validator.kind).condition)]

(* Validator.__init__: an instance, with the default or a custom message;  *)
(* Class(kind) is the class itself, given in place of an instance          *)
Instance(kind, condition) ==
    [kind |-> kind, condition |-> condition, instance |-> TRUE,
     error_message |-> ERROR_MESSAGE_OF(kind)]
InstanceMsg(kind, condition, text) ==
    [kind |-> kind, condition |-> condition, instance |-> TRUE,
     error_message |-> [text |-> text, value |-> FALSE, condition |-> FALSE]]
Class(kind) ==
    [kind |-> kind, condition |-> PyNone, instance |-> FALSE,
     error_message |-> ERROR_MESSAGE_OF(kind)]

(* one iteration of the loop of ValidatedParameter.validate, lines        *)
(* 119-125, on st = [errors, evaluated, exc, returned]                     *)
FailureMessage(validator, value) ==
    IF validator.instance THEN Validator_message(validator, value)
    ELSE Validator_ERROR_MESSAGE(validator)


(* a validate that returns at the first failure whatever group_errors is *)
ValidateOutcome_AlwaysReturns(st, validator, value, group, v) ==
    IF ~v.ok THEN [st EXCEPT !.exc = v.exc, !.returned = TRUE]
    ELSE IF v.val THEN st
    ELSE [st EXCEPT !.errors = Append(@, FailureMessage(validator, value)),
                    !.returned = TRUE]

ValidateOutcome(st, validator, value, group, v) ==
    IF ~v.ok THEN [st EXCEPT !.exc = v.exc, !.returned = TRUE]
    ELSE IF v.val THEN st
    ELSE [st EXCEPT !.errors = Append(@, FailureMessage(validator, value)),
                    !.returned = ~group]

ValidateStep(st, validator, value, group) ==
    ValidateOutcome([st EXCEPT !.evaluated = Append(@, validator)], validator, value,
                    group, validator_validate(validator, value))

RECURSIVE ValidateLoop(_, _, _, _, _)
ValidateLoop(st, validators, i, value, group) ==
    IF i > Len(validators) \/ st.returned THEN st
    ELSE ValidateLoop(ValidateStep(st, validators[i], value, group),
                      validators, i + 1, value, group)

ValidateStart == [errors |-> <<>>, evaluated |-> <<>>, exc |-> "", returned |-> FALSE]

Validated(st) ==
    [r |-> IF st.exc # "" THEN Raise(st.exc) ELSE Ok(st.errors),
     evaluated |-> st.evaluated]

(* ValidatedParameter.validate(value, group_errors):                       *)
(* [r (the list of errors, or the exception), evaluated (the validators    *)
(* whose validate ran, in order)]                                          *)
ValidatedParameter_validate(self, value, group) ==
    IF self.validators = <<>> THEN Validated(ValidateStart)
    ELSE Validated(ValidateLoop(ValidateStart, self.validators, 1, value, group))

(* self._path.split(PATH_DIVIDER)[-1] *)
LastPathKey(path) == Split(path, PATH_DIVIDER)[Len(Split(path, PATH_DIVIDER))]

PathErrors(key, v) ==
    [r |-> IF ~v.r.ok THEN v.r
           ELSE IF v.r.val # <<>> THEN Ok(<<[key |-> key, errors |-> v.r.val]>>)
           ELSE Ok(<<>>),
     evaluated |-> v.evaluated]

(* Parameter.validate_path(value, group_errors):                           *)
(* Ok(<<>>) for {} and Ok(<<[key, errors]>>) for {key: errors}             *)
validate_path(self, value, group) ==
    PathErrors(LastPathKey(self.path.s), ValidatedParameter_validate(self, value, group))

-----------------------------------------------------------------------------
(* utils.py and classes.py: names, arguments, the failure response *)

Letters == {"a", "b", "c", "d", "e", "f", "g", "h", "i", "j", "k", "l", "m",
            "n", "o", "p", "q", "r", "s", "t", "u", "v", "w", "x", "y", "z", "_",
            "A", "B", "C", "D", "E", "F", "G", "H", "I", "J", "K", "L", "M",
            "N", "O", "P", "Q", "R", "S", "T", "U", "V", "W", "X", "Y", "Z"}

(* name.isidentifier(), for ASCII names *)
IsIdentifier(name) ==
    /\ name # <<>>
    /\ name[1] \in Letters
    /\ \A i \in 1..Len(name) : name[i] \in Letters \cup Digits

(* keyword.kwlist *)
Keywords == {
    <<"F", "a", "l", "s", "e">>, <<"N", "o", "n", "e">>, <<"T", "r", "u", "e">>,
    <<"a", "n", "d">>, <<"a", "s">>, <<"a", "s", "s", "e", "r", "t">>,
    <<"a", "s", "y", "n", "c">>, <<"a", "w", "a", "i", "t">>, <<"b", "r", "e", "a", "k">>,
    <<"c", "l", "a", "s", "s">>, <<"c", "o", "n", "t", "i", "n", "u", "e">>, <<"d", "e", "f">>,
    <<"d", "e", "l">>, <<"e", "l", "i", "f">>, <<"e", "l", "s", "e">>,
    <<"e", "x", "c", "e", "p", "t">>, <<"f", "i", "n", "a", "l", "l", "y">>, <<"f", "o", "r">>,
    <<"f", "r", "o", "m">>, <<"g", "l", "o", "b", "a", "l">>, <<"i", "f">>,
    <<"i", "m", "p", "o", "r", "t">>, <<"i", "n">>, <<"i", "s">>,
    <<"l", "a", "m", "b", "d", "a">>, <<"n", "o", "n", "l", "o", "c", "a", "l">>, <<"n", "o", "t">>,
    <<"o", "r">>, <<"p", "a", "s", "s">>, <<"r", "a", "i", "s", "e">>,
    <<"r", "e", "t", "u", "r", "n">>, <<"t", "r", "y">>, <<"w", "h", "i", "l", "e">>,
    <<"w", "i", "t", "h">>, <<"y", "i", "e", "l", "d">>}

(* is_valid_variable_name(name) *)
is_valid_variable_name(name) == IsIdentifier(name) /\ name \notin Keywords

(* BaseParameter.get_var_name() *)
get_var_name(self) ==
    IF Truthy(self.name) /\ ~is_valid_variable_name(self.name.s)
    THEN Raise("SyntaxError")
    ELSE Ok(self.name)

(* dicts keyed by names, as functions *)
NoItems == [k \in {} |-> PyNone]
Put(d, k, v) == [x \in DOMAIN d \cup {k} |-> IF x = k THEN v ELSE d[x]]
Update(d, e) == [x \in DOMAIN d \cup DOMAIN e |-> IF x \in DOMAIN e THEN e[x] ELSE d[x]]

(* inspect.getfullargspec(func)[0] of the handlers: def handler(event, context, and keyword arguments) *)
ARG_SPEC == <<EVENT, CONTEXT>>

(* all_func_args(func, args, kwargs) *)
all_func_args(a, kw) ==
    IF Len(a) > Len(ARG_SPEC) THEN Raise("IndexError")
    ELSE Ok(Update([x \in {ARG_SPEC[j] : j \in 1..Len(a)} |->
                      a[CHOOSE j \in 1..Len(a) : ARG_SPEC[j] = x]], kw))

ERROR_MESSAGE == "Error extracting parameters"
UNKNOWN == "Unknown"
BAD_REQUEST == 400

(* failure(errors): statusCode and the body json.dumps({"message": errors}), *)
(* errors the string ERROR_MESSAGE or a list of error groups               *)
failure_message(text) ==
    [kind |-> "failure", statusCode |-> BAD_REQUEST,
     body |-> [message |-> [is |-> "string", text |-> text]]]
failure_errors(errs) ==
    [kind |-> "failure", statusCode |-> BAD_REQUEST,
     body |-> [message |-> [is |-> "list", groups |-> errs]]]

-----------------------------------------------------------------------------
(* decorators.py: extract(parameters, group_errors, allow_none_defaults) *)

NoResponse == [kind |-> "none"]

(* mutant: func is called inside the try block *)
FuncResult_InsideTry(outcome) ==
    IF outcome.kind = "raise"
    THEN [kind |-> "failure", statusCode |-> BAD_REQUEST,
          body |-> [message |-> [is |-> "string", text |-> ERROR_MESSAGE]]]
    ELSE outcome

(* line 118, `return func(...)` in the else clause: what func returns is   *)
(* returned, what it raises is raised                                     *)
FuncResult(outcome) == outcome

(* the exceptions of the model are all subclasses of Exception *)
ExceptionSubclasses ==
    {"TypeError", "KeyError", "IndexError", "AttributeError", "UnboundLocalError",
     "SyntaxError", "JSONDecodeError", "DecodeError", "ValueError"}

(* mutant: `except KeyError` *)
ExceptClauseCatches_KeyErrorOnly(exc) == exc = "KeyError"

(* `except Exception as ex` takes the exception, line 108 *)
ExceptClauseCatches(exc) == exc \in ExceptionSubclasses

(* the except clause of the wrapper: log, return failure(ERROR_MESSAGE) *)
ExceptionLog(exc, param_known, param) ==
    [msg |-> "%s: %s in argument %s for path %s", exc |-> exc,
     argument |-> IF param_known THEN <<param.func_param_name>> ELSE <<UNKNOWN>>,
     path |-> IF param_known THEN <<param.path>> ELSE <<UNKNOWN>>]

ValidateLog(errs) ==
    [msg |-> "Error validating parameters. Errors: %s", errors |-> errs]

(* one iteration of `for param in parameters` of the wrapper, lines        *)
(* 97-107, with the except clause it may end in (108-112): the locals, the *)
(* Parameter and the caches afterwards, and what the iteration did         *)
Iteration(param, jc, wc, errs, kw, lg, resp, step) ==
    [param |-> param, json_cache |-> jc, jwt_cache |-> wc, errors |-> errs,
     kwargs |-> kw, log |-> lg, returns |-> resp.kind # "none",
     response |-> resp, step |-> step]

StepRecord(value, evaluated, errs, exc, bound, name) ==
    [value |-> value, evaluated |-> evaluated, errors |-> errs, exc |-> exc,
     bound |-> bound, name |-> name]

(* mutant: the except clause returns the error groups collected so far *)
Caught_ReturnsGroups(param, jc, wc, errs, kw, lg, value, evaluated, exc) ==
    IF ExceptClauseCatches(exc)
    THEN Iteration(param, jc, wc, errs, kw, Append(lg, ExceptionLog(exc, TRUE, param)),
                   IF errs # <<>> THEN failure_errors(errs)
                   ELSE failure_message(ERROR_MESSAGE),
                   StepRecord(value, evaluated, <<>>, exc, FALSE, PyNone))
    ELSE Iteration(param, jc, wc, errs, kw, lg, [kind |-> "raise", exc |-> exc],
                   StepRecord(value, evaluated, <<>>, exc, FALSE, PyNone))

(* except Exception as ex: lines 108-112 *)
Caught(param, jc, wc, errs, kw, lg, value, evaluated, exc) ==
    IF ExceptClauseCatches(exc)
    THEN Iteration(param, jc, wc, errs, kw, Append(lg, ExceptionLog(exc, TRUE, param)),
                   failure_message(ERROR_MESSAGE),
                   StepRecord(value, evaluated, <<>>, exc, FALSE, PyNone))
    ELSE Iteration(param, jc, wc, errs, kw, lg, [kind |-> "raise", exc |-> exc],
                   StepRecord(value, evaluated, <<>>, exc, FALSE, PyNone))

(* mutant: `if return_val:` in place of `return_val is not None` *)
Bind_OnlyTruthy(param, kw, errs, ev, vp, vn) ==
    IF ~vn.ok
    THEN Caught(param, ev.json_cache, ev.jwt_cache, errs, kw, ev.log, ev.r,
                vp.evaluated, vn.exc)
    ELSE IF Truthy(ev.r.val)
    THEN Iteration(param, ev.json_cache, ev.jwt_cache, errs, Put(kw, vn.val.s, ev.r.val),
                   ev.log, NoResponse,
                   StepRecord(ev.r, vp.evaluated, <<>>, "", TRUE, vn.val))
    ELSE Iteration(param, ev.json_cache, ev.jwt_cache, errs, kw, ev.log, NoResponse,
                   StepRecord(ev.r, vp.evaluated, <<>>, "", FALSE, PyNone))

(* line 107 *)
Bind(param, kw, errs, ev, vp, vn) ==
    IF ~vn.ok
    THEN Caught(param, ev.json_cache, ev.jwt_cache, errs, kw, ev.log, ev.r,
                vp.evaluated, vn.exc)
    ELSE Iteration(param, ev.json_cache, ev.jwt_cache, errs, Put(kw, vn.val.s, ev.r.val),
                   ev.log, NoResponse,
                   StepRecord(ev.r, vp.evaluated, <<>>, "", TRUE, vn.val))

(* mutant: the loop goes on after a failure whatever group_errors is *)
Invalid_NeverStops(param, kw, errs, group, ev, vp) ==
    Iteration(param, ev.json_cache, ev.jwt_cache, errs, kw, ev.log, NoResponse,
              StepRecord(ev.r, vp.evaluated, vp.r.val, "", FALSE, PyNone))

(* mutant: the wrapper returns at the first failure whatever group_errors is *)
Invalid_AlwaysStops(param, kw, errs, group, ev, vp) ==
    Iteration(param, ev.json_cache, ev.jwt_cache, errs, kw,
              Append(ev.log, ValidateLog(errs)), failure_errors(errs),
              StepRecord(ev.r, vp.evaluated, vp.r.val, "", FALSE, PyNone))

(* lines 101-105 *)
Invalid(param, kw, errs, group, ev, vp) ==
    Iteration(param, ev.json_cache, ev.jwt_cache, errs, kw,
              IF group THEN ev.log ELSE Append(ev.log, ValidateLog(errs)),
              IF group THEN NoResponse ELSE failure_errors(errs),
              StepRecord(ev.r, vp.evaluated, vp.r.val, "", FALSE, PyNone))

(* mutant: a None value is bound whatever allow_none_defaults is *)
AfterValidate_BindsNone(param, kw, errs, group, allow_none, ev, vp) ==
    IF ~vp.r.ok
    THEN Caught(param, ev.json_cache, ev.jwt_cache, errs, kw, ev.log, ev.r,
                vp.evaluated, vp.r.exc)
    ELSE IF vp.r.val # <<>> THEN Invalid(param, kw, errs \o vp.r.val, group, ev, vp)
    ELSE Bind(param, kw, errs, ev, vp, get_var_name(param))

(* lines 101-107 *)
AfterValidate(param, kw, errs, group, allow_none, ev, vp) ==
    IF ~vp.r.ok
    THEN Caught(param, ev.json_cache, ev.jwt_cache, errs, kw, ev.log, ev.r,
                vp.evaluated, vp.r.exc)
    ELSE IF vp.r.val # <<>> THEN Invalid(param, kw, errs \o vp.r.val, group, ev, vp)
    ELSE IF allow_none \/ ev.r.val.t # "none"
    THEN Bind(param, kw, errs, ev, vp, get_var_name(param))
    ELSE Iteration(param, ev.json_cache, ev.jwt_cache, errs, kw, ev.log, NoResponse,
                   StepRecord(ev.r, vp.evaluated, <<>>, "", FALSE, PyNone))

Named(param, name) == [param EXCEPT !.name = name]

(* lines 99-100 *)
AfterExtract(param, kw, errs, group, allow_none, ev) ==
    IF ~ev.r.ok
    THEN Caught(param, ev.json_cache, ev.jwt_cache, errs, kw, ev.log, ev.r, <<>>,
                ev.r.exc)
    ELSE AfterValidate(Named(param, ev.name), kw, errs, group, allow_none, ev,
                       validate_path(Named(param, ev.name), ev.r.val, group))

(* line 98 *)
SourceArgument(param, argd) ==
    IF param.func_param_name.t = "str" /\ param.func_param_name.s \in DOMAIN argd
    THEN Ok(argd[param.func_param_name.s])
    ELSE Raise("KeyError")

AfterSource(param, kw, errs, group, allow_none, jc, wc, src) ==
    IF ~src.ok
    THEN Caught(param, jc, wc, errs, kw, <<>>, src, <<>>, src.exc)
    ELSE AfterExtract(param, kw, errs, group, allow_none,
                      extract_value(param, src.val, jc, wc))

LoopBody(param, argd, kw, errs, group, allow_none, jc, wc) ==
    AfterSource(param, kw, errs, group, allow_none, jc, wc, SourceArgument(param, argd))

-----------------------------------------------------------------------------
(* the inputs of the model *)

MaxCalls == 2

Parameter(path, func_param_name, validators, var_name, default) ==
    [path |-> path, func_param_name |-> func_param_name, validators |-> validators,
     name |-> var_name, default |-> default]

(* a dict from a sequence of <<key, value>> pairs with distinct keys *)
DictOf(pairs) ==
    PyDict([x \in {pairs[i][1] : i \in 1..Len(pairs)} |->
              pairs[CHOOSE i \in 1..Len(pairs) : pairs[i][1] = x][2]])

kA == <<"a">>
kB == <<"b">>
kC == <<"c">>
kJ == <<"j">>
kL == <<"l">>
kT == <<"t">>

TXT_OBJ == <<"{", "\"", "c", "\"", ":", "1", "}">>
TXT_BAD == <<"{">>
TXT_JWT == <<"h", ".", "p", ".", "s">>

Path_a_b == PyStr(<<"/", "a", "/", "b">>)
Path_a_c == PyStr(<<"/", "a", "/", "c">>)
Path_j_c == PyStr(<<"j", "[", "j", "s", "o", "n", "]", "/", "c">>)
Path_l_1 == PyStr(<<"/", "l", "[", "1", "]">>)
Path_t_sub == PyStr(<<"t", "[", "j", "w", "t", "]", "/", "s", "u", "b">>)

pMandatory == Parameter(Path_a_b, PyStr(EVENT), <<Class("Mandatory")>>, PyNone, PyNone)
pRange == Parameter(Path_a_c, PyStr(EVENT),
                    <<Instance("Minimum", PyInt(2)), Instance("MaxLength", PyInt(1)),
                      Instance("Maximum", PyInt(10))>>, PyNone, PyNone)
pJson == Parameter(Path_j_c, PyStr(EVENT), <<>>, PyStr(<<"n">>), PyNone)
pSpace == Parameter(Path_a_b, PyStr(EVENT), <<>>, PyStr(<<"w", " ", "s">>), PyNone)
pContext == Parameter(Path_a_b, PyStr(CONTEXT), <<Class("Mandatory")>>,
                      PyStr(<<"x">>), PyNone)
pRegex == Parameter(Path_a_c, PyStr(EVENT),
                    <<Instance("RegexValidator", PyStr(RE_DIGITS))>>, PyStr(<<"r">>), PyNone)
pNonePath == Parameter(PyNone, PyStr(EVENT), <<>>, PyNone, PyNone)
pPlain == Parameter(Path_a_b, PyStr(EVENT), <<>>, PyNone, PyNone)
pKeyword == Parameter(Path_a_b, PyStr(EVENT), <<>>, PyStr(<<"i", "f">>), PyNone)
pDefaulted == Parameter(Path_a_b, PyStr(EVENT), <<Class("Mandatory")>>, PyNone,
                        PyStr(<<"d">>))
pIndex == Parameter(Path_l_1, PyStr(EVENT), <<Instance("NonEmpty", PyNone)>>, PyNone, PyInt(0))
pJwt == Parameter(Path_t_sub, PyStr(EVENT), <<InstanceMsg("MinLength", PyInt(2), "short")>>,
                  PyStr(<<"u">>), PyNone)

ParameterLists ==
    { <<pMandatory>>,
      <<pMandatory, pRange>>,
      <<pRange, pMandatory>>,
      <<pMandatory, pJson, pRange>>,
      <<pRange, pSpace, pMandatory>>,
      <<pContext, pMandatory>>,
      <<pMandatory, pRegex>>,
      <<pJson, pJson>>,
      <<pRange, pNonePath>>,
      <<pIndex, pJwt, pMandatory>>,
      <<pPlain, pJson>>,
      <<pSpace, pJson>>,
      <<pKeyword>>,
      <<pDefaulted, pPlain>> }

evOk == DictOf(<< <<kA, DictOf(<< <<kB, PyStr(<<"7">>)>>, <<kC, PyInt(5)>> >>)>>,
                  <<kJ, PyStr(TXT_OBJ)>>,
                  <<kL, PyList(<<PyInt(1), PyInt(2)>>)>>,
                  <<kT, PyStr(TXT_JWT)>> >>)
evMissing == DictOf(<< <<kA, EmptyDict>> >>)
evSmall == DictOf(<< <<kA, DictOf(<< <<kB, PyStr(<<>>)>>, <<kC, PyInt(1)>> >>)>>,
                     <<kJ, PyStr(TXT_OBJ)>>,
                     <<kL, PyList(<<PyInt(1)>>)>>,
                     <<kT, PyStr(TXT_BAD)>> >>)
evLong == DictOf(<< <<kA, DictOf(<< <<kB, PyStr(<<"7">>)>>, <<kC, PyInt(12)>> >>)>>,
                    <<kJ, DictOf(<< <<kC, PyInt(1)>> >>)>>,
                    <<kL, PyList(<<PyInt(1), PyList(<<>>)>>)>>,
                    <<kT, PyStr(TXT_JWT)>> >>)
evStr == DictOf(<< <<kA, PyStr(<<"a", "b", "c">>)>> >>)
evBadJson == DictOf(<< <<kA, DictOf(<< <<kB, PyStr(<<"7">>)>> >>)>>, <<kJ, PyStr(TXT_BAD)>> >>)
evNull == DictOf(<< <<kA, DictOf(<< <<kB, PyNone>> >>)>> >>)
ctxOk == DictOf(<< <<kA, DictOf(<< <<kB, PyStr(<<"8">>)>> >>)>> >>)

(* the calls handler(args, kwargs) of the model *)
Calls ==
    { [args |-> <<ev, ctxOk>>, kwargs |-> NoItems] :
          ev \in {evOk, evMissing, evSmall, evLong, evStr, evBadJson, evNull} }
    \cup { [args |-> <<evOk, PyNone>>, kwargs |-> NoItems],
           [args |-> <<evOk>>, kwargs |-> NoItems],
           [args |-> <<evSmall>>, kwargs |-> Put(NoItems, CONTEXT, PyNone)],
           [args |-> <<evOk, ctxOk, PyNone>>, kwargs |-> NoItems] }

(* what the wrapped func may raise *)
FuncExceptions == {"KeyError", "RuntimeError"}

-----------------------------------------------------------------------------
(* the extract wrapper as a state machine *)

NoProbe == [op |-> "none"]

(* no call is running *)
Idle ==
    /\ json_cache = EmptyCache
    /\ jwt_cache = EmptyCache
    /\ pc = "idle"
    /\ args = <<>>
    /\ kwargs = NoItems
    /\ idx = 1
    /\ errors = <<>>
    /\ response = NoResponse
    /\ handler_calls = 0
    /\ handler_args = [args |-> <<>>, kwargs |-> NoItems]
    /\ trace = <<>>
    /\ log = <<>>
    /\ ncalls = 0
    /\ arg_dictionary = NoItems
    /\ call_kwargs = NoItems
    /\ func_outcome = NoResponse

Init ==
    /\ parameters \in ParameterLists
    /\ group_errors \in BOOLEAN
    /\ allow_none_defaults \in BOOLEAN
    /\ Idle
    /\ probe = NoProbe

(* the caller calls the decorated handler: wrapper lines 93-96 *)
Call(c) ==
    /\ pc \in {"idle", "done"}
    /\ ncalls < MaxCalls
    /\ ncalls' = ncalls + 1
    /\ args' = c.args
    /\ kwargs' = c.kwargs
    /\ call_kwargs' = c.kwargs
    /\ errors' = <<>>
    /\ idx' = 1
    /\ trace' = <<>>
    /\ handler_calls' = 0
    /\ handler_args' = [args |-> <<>>, kwargs |-> NoItems]
    /\ func_outcome' = NoResponse
    /\ IF all_func_args(c.args, c.kwargs).ok
       THEN /\ arg_dictionary' = all_func_args(c.args, c.kwargs).val
            /\ pc' = "loop"
            /\ response' = NoResponse
            /\ log' = <<>>
       ELSE /\ arg_dictionary' = NoItems
            /\ pc' = "done"
            /\ response' = IF ExceptClauseCatches(all_func_args(c.args, c.kwargs).exc)
                           THEN failure_message(ERROR_MESSAGE)
                           ELSE [kind |-> "raise",
                                 exc |-> all_func_args(c.args, c.kwargs).exc]
            /\ log' = <<ExceptionLog(all_func_args(c.args, c.kwargs).exc, FALSE, PyNone)>>
    /\ UNCHANGED <<parameters, group_errors, allow_none_defaults, json_cache,
                   jwt_cache, probe>>

(* the state after one iteration b of the for loop *)
Iterated(b) ==
    /\ parameters' = [parameters EXCEPT ![idx] = b.param]
    /\ json_cache' = b.json_cache
    /\ jwt_cache' = b.jwt_cache
    /\ errors' = b.errors
    /\ kwargs' = b.kwargs
    /\ log' = log \o b.log
    /\ trace' = Append(trace, [i |-> idx, step |-> b.step])
    /\ response' = b.response
    /\ pc' = IF b.returns THEN "done" ELSE "loop"
    /\ idx' = IF b.returns THEN idx ELSE idx + 1

(* one iteration of the for loop: wrapper lines 97-112 *)
Step ==
    /\ pc = "loop"
    /\ idx <= Len(parameters)
    /\ Iterated(LoopBody(parameters[idx], arg_dictionary, kwargs, errors,
                         group_errors, allow_none_defaults, json_cache, jwt_cache))
    /\ UNCHANGED <<group_errors, allow_none_defaults, args, handler_calls,
                   handler_args, ncalls, arg_dictionary, call_kwargs, func_outcome,
                   probe>>

(* the else clause, grouped errors: wrapper lines 114-116 *)
ReturnGrouped ==
    /\ pc = "loop"
    /\ idx > Len(parameters)
    /\ group_errors /\ errors # <<>>
    /\ response' = failure_errors(errors)
    /\ log' = Append(log, ValidateLog(errors))
    /\ pc' = "done"
    /\ UNCHANGED <<parameters, group_errors, allow_none_defaults, json_cache,
                   jwt_cache, args, kwargs, idx, errors, handler_calls,
                   handler_args, trace, ncalls, arg_dictionary, call_kwargs,
                   func_outcome, probe>>

(* the else clause, func(args, kwargs) is invoked: wrapper line 118 *)
InvokeFunc ==
    /\ pc = "loop"
    /\ idx > Len(parameters)
    /\ ~(group_errors /\ errors # <<>>)
    /\ handler_calls' = handler_calls + 1
    /\ handler_args' = [args |-> args, kwargs |-> kwargs]
    /\ pc' = "func"
    /\ UNCHANGED <<parameters, group_errors, allow_none_defaults, json_cache,
                   jwt_cache, args, kwargs, idx, errors, response, trace, log,
                   ncalls, arg_dictionary, call_kwargs, func_outcome, probe>>

(* func ends with outcome o; the wrapper does with it what line 118 does *)
FuncEnds(o) ==
    /\ pc = "func"
    /\ func_outcome' = o
    /\ response' = FuncResult(o)
    /\ pc' = "done"
    /\ UNCHANGED <<parameters, group_errors, allow_none_defaults, json_cache,
                   jwt_cache, args, kwargs, idx, errors, handler_calls,
                   handler_args, trace, log, ncalls, arg_dictionary, call_kwargs,
                   probe>>

(* func returns (here: the keyword arguments it was given) *)
FuncReturn == FuncEnds([kind |-> "return", value |-> PyDict(handler_args.kwargs)])

(* func raises *)
FuncRaise == \E e \in FuncExceptions : FuncEnds([kind |-> "raise", exc |-> e])

Next ==
    \/ \E c \in Calls : Call(c)
    \/ Step
    \/ ReturnGrouped
    \/ InvokeFunc
    \/ FuncReturn
    \/ FuncRaise

Spec == Init /\ [][Next]_vars

-----------------------------------------------------------------------------
(* Parameter.extract_value applied once to each of a set of inputs *)

Path_a == PyStr(<<"a">>)
Path_a_b_c == PyStr(<<"/", "a", "/", "b", "/", "c">>)
Path_a_1_c == PyStr(<<"a", "[", "1", "]", "/", "c">>)
Path_a_x_b == PyStr(<<"a", "[", "x", "]", "/", "b", "/">>)
Path_empty == PyStr(<<>>)

WalkPaths == {Path_a, Path_a_b, Path_a_b_c, Path_j_c, Path_a_1_c, Path_a_x_b, Path_empty}

WalkDefaults ==
    {PyNone, PyStr(<<"a", "b", "c">>), DictOf(<< <<kC, PyInt(7)>> >>), PyInt(5)}

WalkParameters ==
    {Parameter(path, PyStr(EVENT), <<>>, PyNone, default) :
         path \in WalkPaths, default \in WalkDefaults}
    \cup {Parameter(Path_empty, PyStr(EVENT), <<>>, PyStr(<<"n">>), PyNone)}

WalkInputs ==
    { PyNone,
      EmptyDict,
      DictOf(<< <<kA, EmptyDict>> >>),
      DictOf(<< <<kA, PyNone>> >>),
      DictOf(<< <<kB, PyInt(1)>> >>),
      DictOf(<< <<kA, DictOf(<< <<kB, EmptyDict>> >>)>> >>),
      DictOf(<< <<kA, DictOf(<< <<kB, DictOf(<< <<kC, PyInt(3)>> >>)>> >>)>> >>),
      DictOf(<< <<kA, DictOf(<< <<kC, PyInt(3)>> >>)>> >>),
      DictOf(<< <<kA, DictOf(<< <<kB, DictOf(<< <<kB, PyInt(3)>> >>)>> >>)>> >>),
      DictOf(<< <<kA, PyStr(<<"a", "b", "c">>)>> >>),
      DictOf(<< <<kA, PyStr(<<"x", "y">>)>> >>),
      DictOf(<< <<kA, PyInt(5)>> >>),
      DictOf(<< <<kA, PyInt(0)>> >>),
      DictOf(<< <<kA, PyList(<<PyStr(kB)>>)>> >>),
      DictOf(<< <<kA, PyList(<<EmptyDict, DictOf(<< <<kB, PyInt(3)>> >>)>>)>> >>),
      DictOf(<< <<kA, PyList(<<PyInt(1)>>)>> >>),
      DictOf(<< <<kJ, PyStr(TXT_OBJ)>> >>),
      DictOf(<< <<kJ, PyStr(<<"{", "}">>)>> >>),
      DictOf(<< <<kJ, PyStr(<<"7">>)>> >>),
      DictOf(<< <<kJ, PyStr(TXT_BAD)>> >>),
      PyStr(<<"a", "b">>) }

NoOutcome == [r |-> Ok(PyNone)]

InitWalk ==
    /\ parameters \in {<<p>> : p \in WalkParameters}
    /\ group_errors = FALSE
    /\ allow_none_defaults = FALSE
    /\ Idle
    /\ probe \in {[op |-> "extract_value", done |-> FALSE, dict_value |-> d,
                   out |-> NoOutcome] : d \in WalkInputs}

(* the state after extract_value gave ev *)
Walked(ev) ==
    /\ probe' = [probe EXCEPT !.done = TRUE, !.out = [r |-> ev.r]]
    /\ parameters' = <<Named(parameters[1], ev.name)>>
    /\ json_cache' = ev.json_cache
    /\ jwt_cache' = ev.jwt_cache
    /\ log' = ev.log

(* parameters[1].extract_value(probe.dict_value) *)
ApplyExtractValue ==
    /\ probe.op = "extract_value"
    /\ ~probe.done
    /\ Walked(extract_value(parameters[1], probe.dict_value, json_cache, jwt_cache))
    /\ UNCHANGED <<group_errors, allow_none_defaults, pc, args, kwargs, idx, errors,
                   response, handler_calls, handler_args, trace, ncalls,
                   arg_dictionary, call_kwargs, func_outcome>>

NextWalk == ApplyExtractValue

SpecWalk == InitWalk /\ [][NextWalk]_vars

-----------------------------------------------------------------------------
(* the validators, and ValidatedParameter.validate, applied once to each   *)
(* of a set of inputs                                                      *)

TypeInt == PyStr(<<"i", "n", "t">>)
TypeStr == PyStr(<<"s", "t", "r">>)
TypeFloat == PyStr(<<"f", "l", "o", "a", "t">>)

Validators ==
    { Class("Mandatory"), Instance("Mandatory", PyNone),
      InstanceMsg("Mandatory", PyNone, "needed"),
      Instance("RegexValidator", PyStr(RE_DIGITS)), Instance("RegexValidator", PyStr(RE_EMPTY)),
      Instance("SchemaValidator", TypeInt), Instance("SchemaValidator", TypeStr),
      Instance("Minimum", PyInt(0)), Instance("Minimum", PyInt(2)),
      Instance("Maximum", PyInt(0)), Instance("Maximum", PyInt(10)),
      Instance("MinLength", PyInt(0)), Instance("MinLength", PyInt(2)),
      Instance("MaxLength", PyInt(0)), Instance("MaxLength", PyInt(3)),
      Instance("Type", TypeInt), Instance("Type", TypeStr), Instance("Type", TypeFloat),
      Instance("EnumValidator", PyList(<<>>)),
      Instance("EnumValidator", PyList(<<PyInt(1), PyStr(<<"7">>)>>)),
      Class("NonEmpty"), Instance("NonEmpty", PyNone),
      Instance("DateValidator", PyStr(FMT_YEAR)),
      InstanceMsg("DateValidator", PyStr(FMT_YEAR), "no date"),
      Class("CurrencyValidator"), Instance("CurrencyValidator", PyNone) }

ValidatorLists ==
    { <<>>,
      <<Class("Mandatory")>>,
      <<Class("Mandatory"), Instance("Minimum", PyInt(2)), Instance("Maximum", PyInt(0))>>,
      <<Instance("Minimum", PyInt(2)), Class("Mandatory"), Instance("Maximum", PyInt(0))>>,
      <<Instance("MinLength", PyInt(2)), Instance("MaxLength", PyInt(0)),
        InstanceMsg("RegexValidator", PyStr(RE_DIGITS), "bad")>>,
      <<Instance("Type", TypeInt), Instance("EnumValidator", PyList(<<PyInt(1), PyStr(<<"7">>)>>)),
        Class("NonEmpty")>>,
      <<Instance("Mandatory", PyNone), Instance("DateValidator", PyStr(FMT_YEAR)),
        Class("CurrencyValidator"), Instance("SchemaValidator", TypeInt)>> }

ValidatedValues ==
    { PyNone, PyStr(<<>>), PyStr(<<"7">>), PyStr(<<"g", "b", "p">>),
      PyStr(<<"1", "9", "9", "9">>), PyInt(0), PyInt(1), PyInt(12),
      PyList(<<>>), EmptyDict, DictOf(<< <<kC, PyInt(1)>> >>) }

InitValidate ==
    /\ Idle
    /\ allow_none_defaults = FALSE
    /\ \/ /\ parameters \in {<<Parameter(Path_a_b, PyStr(EVENT), vs, PyNone, PyNone)>> :
                                 vs \in ValidatorLists}
          /\ group_errors \in BOOLEAN
          /\ probe \in {[op |-> "validate", done |-> FALSE, value |-> v,
                         out |-> NoOutcome] : v \in ValidatedValues}
       \/ /\ parameters = <<>>
          /\ group_errors = FALSE
          /\ probe \in {[op |-> "validator.validate", done |-> FALSE, validator |-> w,
                         value |-> v, out |-> NoOutcome] :
                            w \in Validators, v \in ValidatedValues}

(* parameters[1].validate(probe.value, group_errors) *)
ApplyValidate ==
    /\ probe.op = "validate"
    /\ ~probe.done
    /\ probe' = [probe EXCEPT !.done = TRUE,
                              !.out = ValidatedParameter_validate(parameters[1], probe.value,
                                                                  group_errors)]
    /\ UNCHANGED <<parameters, group_errors, allow_none_defaults, json_cache, jwt_cache,
                   pc, args, kwargs, idx, errors, response, handler_calls, handler_args,
                   trace, log, ncalls, arg_dictionary, call_kwargs, func_outcome>>

(* probe.validator.validate(probe.value) *)
ApplyValidator ==
    /\ probe.op = "validator.validate"
    /\ ~probe.done
    /\ probe' = [probe EXCEPT !.done = TRUE,
                              !.out = [r |-> validator_validate(probe.validator, probe.value)]]
    /\ UNCHANGED <<parameters, group_errors, allow_none_defaults, json_cache, jwt_cache,
                   pc, args, kwargs, idx, errors, response, handler_calls, handler_args,
                   trace, log, ncalls, arg_dictionary, call_kwargs, func_outcome>>

NextValidate == ApplyValidate \/ ApplyValidator

SpecValidate == InitValidate /\ [][NextValidate]_vars

-----------------------------------------------------------------------------
(* decode, and Parameter.get_annotations_from_key, applied to each of a    *)
(* set of inputs                                                           *)

MaxDecodes == 2

MaxSegmentLen == 4

DecodeAnnotations ==
    { PyNone, PyStr(<<>>), PyStr(<<"0">>), PyStr(<<"1">>), PyStr(<<"0", "2">>),
      PyStr(<<"1", "0">>), PyStr(JSON), PyStr(JWT), PyStr(<<"x">>),
      PyStr(<<"J", "S", "O", "N">>), PyStr(<<"1", "x">>), PyStr(<<SUPERSCRIPT_TWO>>) }

DecodeValues ==
    { PyNone, PyInt(5), PyList(<<>>), PyList(<<PyInt(1), PyList(<<>>)>>),
      PyList(<<PyInt(1), PyInt(2), PyStr(<<"c">>)>>),
      PyStr(<<>>), PyStr(<<"a", "b", "c">>), PyStr(TXT_OBJ), PyStr(<<"{", "}">>),
      PyStr(<<"[", "1", "]">>), PyStr(<<"n", "u", "l", "l">>), PyStr(<<"7">>),
      PyStr(<<"0", "7">>), PyStr(TXT_BAD), PyStr(TXT_JWT),
      DictOf(<< <<kC, PyInt(1)>> >>) }

SegmentChars == {"k", "n", ANNOTATIONS_START, ANNOTATIONS_END}

Segments == UNION {[1..n -> SegmentChars] : n \in 0..MaxSegmentLen}

InitDecode ==
    /\ Idle
    /\ parameters = <<>>
    /\ group_errors = FALSE
    /\ allow_none_defaults = FALSE
    /\ \/ probe \in {[op |-> "decode", n |-> 0, annotation |-> a, value |-> v,
                      out |-> NoOutcome] : a \in DecodeAnnotations, v \in DecodeValues}
       \/ probe \in {[op |-> "get_annotations_from_key", done |-> FALSE, key |-> k,
                      out |-> [real_key |-> <<>>, annotation |-> PyNone]] :
                         k \in Segments}

(* the state after decode gave d *)
DecodedOnce(d) ==
    /\ probe' = [probe EXCEPT !.n = @ + 1, !.out = [r |-> d.r, log |-> d.log]]
    /\ json_cache' = d.json_cache
    /\ jwt_cache' = d.jwt_cache
    /\ log' = log \o d.log

(* decode(probe.annotation, probe.value) *)
ApplyDecode ==
    /\ probe.op = "decode"
    /\ probe.n < MaxDecodes
    /\ DecodedOnce(decode(probe.annotation, probe.value, json_cache, jwt_cache))
    /\ UNCHANGED <<parameters, group_errors, allow_none_defaults, pc, args, kwargs, idx,
                   errors, response, handler_calls, handler_args, trace, ncalls,
                   arg_dictionary, call_kwargs, func_outcome>>

(* Parameter.get_annotations_from_key(probe.key) *)
ApplyGetAnnotations ==
    /\ probe.op = "get_annotations_from_key"
    /\ ~probe.done
    /\ probe' = [probe EXCEPT !.done = TRUE, !.out = get_annotations_from_key(probe.key)]
    /\ UNCHANGED <<parameters, group_errors, allow_none_defaults, json_cache, jwt_cache,
                   pc, args, kwargs, idx, errors, response, handler_calls, handler_args,
                   trace, log, ncalls, arg_dictionary, call_kwargs, func_outcome>>

NextDecode == ApplyDecode \/ ApplyGetAnnotations

SpecDecode == InitDecode /\ [][NextDecode]_vars

-----------------------------------------------------------------------------
(* decorators.py: extract_from_ssm(ssm_parameters)                         *)

(* SSMParameter(ssm_name, var_name): the name is var_name, or ssm_name     *)
(* when var_name is falsy                                                  *)
SSMParameter(ssm_name, var_name) ==
    [ssm_name |-> ssm_name, name |-> IF Truthy(var_name) THEN var_name ELSE PyStr(ssm_name)]

(* the position of the first of ssm_parameters whose ssm_name is name, 0   *)
(* when there is none: the inner loop, lines 192-193                       *)
SsmMatch(ssm_parameters, name) ==
    IF \E i \in 1..Len(ssm_parameters) : ssm_parameters[i].ssm_name = name
    THEN CHOOSE i \in 1..Len(ssm_parameters) :
             /\ ssm_parameters[i].ssm_name = name
             /\ \A j \in 1..(i - 1) : ssm_parameters[j].ssm_name # name
    ELSE 0

RECURSIVE SsmLoop(_, _, _, _)

(* line 194 *)
SsmBound(ssm_parameters, containers, i, kw, vn) ==
    IF ~vn.ok THEN [r |-> vn, kwargs |-> kw]
    ELSE SsmLoop(ssm_parameters, containers, i + 1, Put(kw, vn.val.s, containers[i].Value))

SsmContainer(ssm_parameters, containers, i, kw, m) ==
    IF m = 0 THEN SsmLoop(ssm_parameters, containers, i + 1, kw)
    ELSE SsmBound(ssm_parameters, containers, i, kw, get_var_name(ssm_parameters[m]))

(* for key_container in server_key_containers["Parameters"], lines 191-195 *)
SsmLoop(ssm_parameters, containers, i, kw) ==
    IF i > Len(containers) THEN [r |-> Ok(PyNone), kwargs |-> kw]
    ELSE SsmContainer(ssm_parameters, containers, i, kw,
                      SsmMatch(ssm_parameters, containers[i].Name))

(* the wrapper up to the call of func, lines 187-195, for the answer       *)
(* store of ssm.get_parameters                                             *)
SsmExtracted(ssm_parameters, store, kw) ==
    CASE store.kind = "ClientError" -> [r |-> Raise("ClientError"), kwargs |-> kw]
      [] store.kind = "empty" -> [r |-> Raise("KeyError"), kwargs |-> kw]
      [] OTHER -> SsmLoop(ssm_parameters, store.Parameters, 1, kw)

MaxStored == 3

sK1 == <<"k", "1">>
sK2 == <<"k", "2">>
sPath == <<"a", "/", "b">>

SsmNames == {sK1, sK2, sPath}

SsmValueOf(name) == PyStr(<<"v">> \o name)

SsmParameterLists ==
    { <<SSMParameter(sK1, PyNone)>>,
      <<SSMParameter(sK1, PyNone), SSMParameter(sK2, PyStr(<<"v">>))>>,
      <<SSMParameter(sK2, PyStr(<<"v">>)), SSMParameter(sK1, PyStr(<<>>))>>,
      <<SSMParameter(sPath, PyNone), SSMParameter(sK1, PyNone)>>,
      <<SSMParameter(sK1, PyStr(<<"x">>)), SSMParameter(sK2, PyNone),
        SSMParameter(sPath, PyStr(<<"p">>))>> }

(* what ssm.get_parameters may answer: the stored parameters among any of  *)
(* the names, in any order; an answer without "Parameters"; a ClientError  *)
StoreAnswers ==
    { [kind |-> "ok",
       Parameters |-> [i \in DOMAIN f |-> [Name |-> f[i], Value |-> SsmValueOf(f[i])]]] :
          f \in {g \in UNION {[1..m -> SsmNames] : m \in 0..MaxStored} :
                    \A i, j \in DOMAIN g : g[i] = g[j] => i = j} }
    \cup {[kind |-> "empty", Parameters |-> <<>>], [kind |-> "ClientError", Parameters |-> <<>>]}

InitSsm ==
    /\ Idle
    /\ parameters = <<>>
    /\ group_errors = FALSE
    /\ allow_none_defaults = FALSE
    /\ probe \in {[op |-> "extract_from_ssm", called |-> FALSE, ssm_parameters |-> l,
                   store |-> [kind |-> "empty", Parameters |-> <<>>]] :
                      l \in SsmParameterLists}

(* the state after the wrapper extracted x from the answer store *)
SsmExtractedTo(store, x) ==
    /\ probe' = [probe EXCEPT !.called = TRUE, !.store = store]
    /\ kwargs' = x.kwargs
    /\ IF x.r.ok
       THEN /\ handler_calls' = handler_calls + 1
            /\ handler_args' = [args |-> args, kwargs |-> x.kwargs]
            /\ pc' = "func"
            /\ response' = response
       ELSE /\ handler_calls' = handler_calls
            /\ handler_args' = handler_args
            /\ pc' = "done"
            /\ response' = [kind |-> "raise", exc |-> x.r.exc]

(* a call of the handler decorated with extract_from_ssm, up to line 196 *)
SsmCall(store) ==
    /\ probe.op = "extract_from_ssm"
    /\ ~probe.called
    /\ SsmExtractedTo(store, SsmExtracted(probe.ssm_parameters, store, kwargs))
    /\ UNCHANGED <<parameters, group_errors, allow_none_defaults, json_cache, jwt_cache,
                   args, idx, errors, trace, log, ncalls, arg_dictionary, call_kwargs,
                   func_outcome>>

NextSsm ==
    \/ \E store \in StoreAnswers : SsmCall(store)
    \/ FuncReturn
    \/ FuncRaise

SpecSsm == InitSsm /\ [][NextSsm]_vars

-----------------------------------------------------------------------------
(* decorators.py: handle_exceptions(handlers)                              *)

(* the exception classes of the model and their base classes *)
BaseOf(class) ==
    CASE class = "KeyError" -> "LookupError"
      [] class = "IndexError" -> "LookupError"
      [] class = "LookupError" -> "Exception"
      [] class = "ValueError" -> "Exception"
      [] class = "RuntimeError" -> "Exception"
      [] OTHER -> "BaseException"

(* issubclass(class, base) *)
RECURSIVE IsSubclass(_, _)
IsSubclass(class, base) ==
    \/ class = base
    \/ class # "BaseException" /\ IsSubclass(BaseOf(class), base)

(* ExceptionHandler(exception, friendly_message, status_code) *)
ExceptionHandler(exception, friendly_message, status_code) ==
    [exception |-> exception, friendly_message |-> friendly_message,
     status_code |-> status_code]

(* failure(errors, status_code) for a message that is one string *)
failure(text, status_code) ==
    [kind |-> "failure", statusCode |-> status_code,
     body |-> [message |-> [is |-> "string", text |-> text]]]

(* `except tuple([handler.exception for handler in handlers])`, line 139 *)
ExceptTupleCatches(handlers, ex) ==
    \E i \in 1..Len(handlers) : IsSubclass(ex.class, handlers[i].exception)

(* [handler for handler in handlers if handler.exception is type(ex)] *)
FailedHandlers(handlers, ex) ==
    SelectSeq(handlers, LAMBDA handler : handler.exception = ex.class)

(* lines 143-146 *)
HandledLog(message, ex) ==
    IF message # "" /\ ex.str # ""
    THEN [msg |-> "%s: %s", logged |-> <<message, ex.str>>]
    ELSE [msg |-> IF message # "" THEN message ELSE ex.str, logged |-> <<>>]

(* lines 141-148, for the handler found *)
Handled(failed_handler, ex) ==
    [response |-> failure(IF failed_handler.friendly_message # ""
                          THEN failed_handler.friendly_message ELSE ex.str,
                          failed_handler.status_code),
     log |-> <<HandledLog(failed_handler.friendly_message, ex)>>]

(* the except clause, lines 139-148, for the list of line 140 *)
ExceptClause(found, ex) ==
    IF found = <<>>
    THEN [response |-> [kind |-> "raise", exc |-> "IndexError"], log |-> <<>>]
    ELSE Handled(found[1], ex)

(* what the wrapper does when func raised ex, lines 137-148 *)
handle_exceptions(handlers, ex) ==
    IF ExceptTupleCatches(handlers, ex)
    THEN ExceptClause(FailedHandlers(handlers, ex), ex)
    ELSE [response |-> [kind |-> "raise", exc |-> ex.class], log |-> <<>>]

SERVER_ERROR == 500

HandlerLists ==
    { <<>>,
      <<ExceptionHandler("KeyError", "msg", BAD_REQUEST)>>,
      <<ExceptionHandler("KeyError", "", BAD_REQUEST)>>,
      <<ExceptionHandler("KeyError", "error", SERVER_ERROR),
        ExceptionHandler("ValueError", "", BAD_REQUEST)>>,
      <<ExceptionHandler("LookupError", "lookup", SERVER_ERROR)>>,
      <<ExceptionHandler("Exception", "", BAD_REQUEST),
        ExceptionHandler("KeyError", "k", SERVER_ERROR)>>,
      <<ExceptionHandler("KeyError", "first", BAD_REQUEST),
        ExceptionHandler("KeyError", "second", SERVER_ERROR)>>,
      <<ExceptionHandler("BaseException", "all", SERVER_ERROR)>> }

(* the exceptions func may raise: the class and str(ex) *)
RaisedExceptions ==
    { [class |-> c, str |-> t] :
          c \in {"KeyError", "IndexError", "LookupError", "ValueError", "RuntimeError",
                 "Exception", "BaseException"},
          t \in {"", "'blank'"} }

InitHandled ==
    /\ Idle
    /\ parameters = <<>>
    /\ group_errors = FALSE
    /\ allow_none_defaults = FALSE
    /\ probe \in {[op |-> "handle_exceptions", handlers |-> h,
                   ex |-> [class |-> "", str |-> ""]] : h \in HandlerLists}

(* the decorated function is called: line 138, func is running *)
HandledCall ==
    /\ probe.op = "handle_exceptions"
    /\ pc = "idle"
    /\ pc' = "func"
    /\ handler_calls' = handler_calls + 1
    /\ UNCHANGED <<parameters, group_errors, allow_none_defaults, json_cache, jwt_cache,
                   args, kwargs, idx, errors, response, handler_args, trace, log, ncalls,
                   arg_dictionary, call_kwargs, func_outcome, probe>>

(* func returns, and the wrapper returns what it returned *)
HandledReturn ==
    /\ probe.op = "handle_exceptions"
    /\ pc = "func"
    /\ pc' = "done"
    /\ func_outcome' = [kind |-> "return", value |-> EmptyDict]
    /\ response' = [kind |-> "return", value |-> EmptyDict]
    /\ UNCHANGED <<parameters, group_errors, allow_none_defaults, json_cache, jwt_cache,
                   args, kwargs, idx, errors, handler_calls, handler_args, trace, log,
                   ncalls, arg_dictionary, call_kwargs, probe>>

(* the state after the wrapper dealt with the exception ex as h tells *)
HandledTo(ex, h) ==
    /\ probe' = [probe EXCEPT !.ex = ex]
    /\ func_outcome' = [kind |-> "raise", exc |-> ex.class]
    /\ response' = h.response
    /\ log' = log \o h.log

(* func raises ex: lines 139-148 *)
HandledRaise(ex) ==
    /\ probe.op = "handle_exceptions"
    /\ pc = "func"
    /\ pc' = "done"
    /\ HandledTo(ex, handle_exceptions(probe.handlers, ex))
    /\ UNCHANGED <<parameters, group_errors, allow_none_defaults, json_cache, jwt_cache,
                   args, kwargs, idx, errors, handler_calls, handler_args, trace, ncalls,
                   arg_dictionary, call_kwargs>>

NextHandled ==
    \/ HandledCall
    \/ HandledReturn
    \/ \E ex \in RaisedExceptions : HandledRaise(ex)

SpecHandled == InitHandled /\ [][NextHandled]_vars

-----------------------------------------------------------------------------
(* ---- cors: decorators.py 283-336, utils.py 89-110 ---- *)

(* one character of str.casefold(), for the letters of the model *)
LowerChar(c) ==
    CASE c = "A" -> "a" [] c = "B" -> "b" [] c = "C" -> "c" [] c = "D" -> "d"
      [] c = "E" -> "e" [] c = "F" -> "f" [] c = "G" -> "g" [] c = "H" -> "h"
      [] c = "I" -> "i" [] c = "J" -> "j" [] c = "K" -> "k" [] c = "L" -> "l"
      [] c = "M" -> "m" [] c = "N" -> "n" [] c = "O" -> "o" [] c = "P" -> "p"
      [] c = "Q" -> "q" [] c = "R" -> "r" [] c = "S" -> "s" [] c = "T" -> "t"
      [] c = "U" -> "u" [] c = "V" -> "v" [] c = "W" -> "w" [] c = "X" -> "x"
      [] c = "Y" -> "y" [] c = "Z" -> "z"
      [] OTHER -> c

(* desensitise(txt): normalise("NFC", txt).casefold(); the strs of the     *)
(* model are ASCII, which NFC leaves as they are                           *)
desensitise(txt) == [i \in 1..Len(txt) |-> LowerChar(txt[i])]

(* find_key_case_insensitive(key_name, the_dict): the key of the_dict that *)
(* equals key_name whatever the letter case, else key_name; iterating a    *)
(* None or an int is a TypeError. The dicts of the model hold at most one  *)
(* key per casefolded name, so the first match of the loop is the match    *)
find_key_case_insensitive(key_name, the_dict) ==
    IF the_dict.t \in {"none", "int"} THEN Raise("TypeError")
    ELSE IF \E key \in DOMAIN the_dict.m : desensitise(key) = desensitise(key_name)
         THEN Ok(CHOOSE key \in DOMAIN the_dict.m :
                     desensitise(key) = desensitise(key_name))
         ELSE Ok(key_name)

(* str(n) of a natural number *)
RECURSIVE IntStr(_)
IntStr(n) ==
    LET d == CASE n % 10 = 0 -> "0" [] n % 10 = 1 -> "1" [] n % 10 = 2 -> "2"
               [] n % 10 = 3 -> "3" [] n % 10 = 4 -> "4" [] n % 10 = 5 -> "5"
               [] n % 10 = 6 -> "6" [] n % 10 = 7 -> "7" [] n % 10 = 8 -> "8"
               [] OTHER -> "9"
    IN IF n < 10 THEN <<d>> ELSE IntStr(n \div 10) \o <<d>>

(* f"{value}" of a str, an int or None *)
Formatted(value) ==
    CASE value.t = "str" -> value.s
      [] value.t = "int" -> IntStr(value.i)
      [] OTHER -> <<"N", "o", "n", "e">>

(* f"{headers[header_key]},{value}", line 310 *)
Appended(existing, value) == PyStr(Formatted(existing) \o <<",">> \o Formatted(value))

(* headers[header_key] = ... if header_key in headers else value, line 310 *)
HeaderSet(headers, header_key, value) ==
    PyDict(Put(headers.m, header_key,
               IF header_key \in DOMAIN headers.m
               THEN Appended(headers.m[header_key], value) ELSE value))

ALLOW_ORIGIN ==
    <<"a", "c", "c", "e", "s", "s", "-", "c", "o", "n", "t", "r", "o", "l",
      "-", "a", "l", "l", "o", "w", "-", "o", "r", "i", "g", "i", "n">>

ALLOW_METHODS ==
    <<"a", "c", "c", "e", "s", "s", "-", "c", "o", "n", "t", "r", "o", "l",
      "-", "a", "l", "l", "o", "w", "-", "m", "e", "t", "h", "o", "d", "s">>

ALLOW_HEADERS ==
    <<"a", "c", "c", "e", "s", "s", "-", "c", "o", "n", "t", "r", "o", "l",
      "-", "a", "l", "l", "o", "w", "-", "h", "e", "a", "d", "e", "r", "s">>

MAX_AGE ==
    <<"a", "c", "c", "e", "s", "s", "-", "c", "o", "n", "t", "r", "o", "l",
      "-", "m", "a", "x", "-", "a", "g", "e">>

HEADERS == <<"h", "e", "a", "d", "e", "r", "s">>
TYPE_STR == <<"s", "t", "r">>
TYPE_INT == <<"i", "n", "t">>

CORS_INVALID_TYPE_ERROR == "Invalid value type in CORS header"
CORS_NON_DICT_ERROR == "Invalid response type for CORS headers"
CORS_INVALID_TYPE_LOG_MESSAGE == "Cannot set %s header to a non %s value"
CORS_NON_DICT_LOG_MESSAGE == "Cannot add headers to a non dictionary response"
INTERNAL_SERVER_ERROR == 500

(* the body of update_header under isinstance(value, value_type): lines    *)
(* 309-310, key the outcome of find_key_case_insensitive                   *)
UpdateFound(headers, key, value) ==
    IF ~key.ok THEN [headers |-> headers, raised |-> TRUE, log |-> <<>>]
    ELSE [headers |-> HeaderSet(headers, key.val, value), raised |-> FALSE, log |-> <<>>]

(* update_header(headers, header_name, value, value_type): lines 306-314;  *)
(* headers after the call, whether TypeError was raised, what was logged   *)
update_header(headers, header_name, value, value_type) ==
    IF ~Truthy(value) THEN [headers |-> headers, raised |-> FALSE, log |-> <<>>]
    ELSE IF IsInstance(value, value_type)
         THEN UpdateFound(headers, find_key_case_insensitive(header_name, headers), value)
         ELSE [headers |-> headers, raised |-> TRUE,
               log |-> <<[msg |-> CORS_INVALID_TYPE_LOG_MESSAGE,
                          logged |-> <<header_name, value_type>>]>>]

(* one more update_header within the try block of lines 325-329: nothing   *)
(* runs after a TypeError                                                  *)
ThenUpdate(before, header_name, value, value_type) ==
    IF before.raised THEN before
    ELSE update_header(before.headers, header_name, value, value_type)

(* the four calls of lines 326-329 in their order *)
UpdatedHeaders(resp_headers, opts) ==
    ThenUpdate(ThenUpdate(ThenUpdate(
        update_header(resp_headers, ALLOW_ORIGIN, opts.allow_origin, TYPE_STR),
        ALLOW_METHODS, opts.allow_methods, TYPE_STR),
        ALLOW_HEADERS, opts.allow_headers, TYPE_STR),
        MAX_AGE, opts.max_age, TYPE_INT)

(* lines 330-333: the response with its headers, or the failure of the     *)
(* except clause                                                           *)
CorsFinish(resp, headers_key, updated) ==
    IF updated.raised
    THEN [response |-> failure(CORS_INVALID_TYPE_ERROR, INTERNAL_SERVER_ERROR),
          log |-> updated.log]
    ELSE [response |-> [kind |-> "return",
                        value |-> PyDict(Put(resp.m, headers_key, updated.headers))],
          log |-> updated.log]

(* lines 320-333: resp a dict, headers_key its "headers" key *)
CorsDict(resp, headers_key, opts) ==
    CorsFinish(resp, headers_key,
               UpdatedHeaders(IF headers_key \in DOMAIN resp.m THEN resp.m[headers_key]
                              ELSE PyDict(<<>>), opts))

(* what the wrapper of cors returns and logs when func returned resp:      *)
(* lines 317-336                                                           *)
cors(opts, resp) ==
    IF resp.t = "dict"
    THEN CorsDict(resp, find_key_case_insensitive(HEADERS, resp).val, opts)
    ELSE [response |-> failure(CORS_NON_DICT_ERROR, INTERNAL_SERVER_ERROR),
          log |-> <<[msg |-> CORS_NON_DICT_LOG_MESSAGE, logged |-> <<>>]>>]

(* ---- inputs of cors ---- *)

hContentType == <<"c", "o", "n", "t", "e", "n", "t", "-", "t", "y", "p", "e">>
hAllowOriginTitle ==
    <<"A", "c", "c", "e", "s", "s", "-", "C", "o", "n", "t", "r", "o", "l", "-",
      "A", "l", "l", "o", "w", "-", "O", "r", "i", "g", "i", "n">>
hMaxAgeUpper ==
    <<"A", "C", "C", "E", "S", "S", "-", "C", "O", "N", "T", "R", "O", "L",
      "-", "M", "A", "X", "-", "A", "G", "E">>
kHeadersTitle == <<"H", "e", "a", "d", "e", "r", "s">>
kStatusCode == <<"s", "t", "a", "t", "u", "s", "C", "o", "d", "e">>
kBody == <<"b", "o", "d", "y">>
TXT_star == <<"*">>
TXT_post == <<"P", "O", "S", "T">>
TXT_site == <<"e">>
TXT_json == <<"j", "s", "o", "n">>

(* the options a cors decorator is built with *)
CorsOptions ==
    [allow_origin : {PyNone, PyStr(<<>>), PyStr(TXT_star), PyInt(5)},
     allow_methods : {PyNone, PyStr(TXT_post)},
     allow_headers : {PyNone, PyStr(hContentType)},
     max_age : {PyNone, PyInt(0), PyInt(12), PyStr(<<"1", "2">>)}]

(* what the decorated function returns *)
CorsResponses ==
    {PyDict(<<>>),
     PyDict((kStatusCode :> PyInt(200))),
     PyDict((kStatusCode :> PyInt(200)) @@ (HEADERS :> PyDict(<<>>))),
     PyDict((HEADERS :> PyDict((hContentType :> PyStr(TXT_json))
                               @@ (ALLOW_ORIGIN :> PyStr(TXT_site))))),
     PyDict((kBody :> PyStr(TXT_json))
            @@ (kHeadersTitle :> PyDict((hAllowOriginTitle :> PyStr(TXT_site))
                                        @@ (hMaxAgeUpper :> PyInt(10))))),
     PyDict((HEADERS :> PyNone)),
     PyNone,
     PyStr(TXT_json)}

(* ---- the wrapper of cors as a state machine ---- *)

InitCors ==
    /\ Idle
    /\ parameters = <<>>
    /\ group_errors = FALSE
    /\ allow_none_defaults = FALSE
    /\ probe \in {[op |-> "cors", opts |-> o] : o \in CorsOptions}

(* the decorated function is called: line 316, func is running *)
CorsCall ==
    /\ probe.op = "cors"
    /\ pc = "idle"
    /\ pc' = "func"
    /\ handler_calls' = handler_calls + 1
    /\ UNCHANGED <<parameters, group_errors, allow_none_defaults, json_cache, jwt_cache,
                   args, kwargs, idx, errors, response, handler_args, trace, log, ncalls,
                   arg_dictionary, call_kwargs, func_outcome, probe>>

(* the state after the wrapper answered c to what func returned *)
CorsTo(resp, c) ==
    /\ func_outcome' = [kind |-> "return", value |-> resp]
    /\ response' = c.response
    /\ log' = log \o c.log

(* func returns resp and the wrapper runs to its return: lines 316-334 *)
CorsReturn(resp) ==
    /\ probe.op = "cors"
    /\ pc = "func"
    /\ pc' = "done"
    /\ CorsTo(resp, cors(probe.opts, resp))
    /\ UNCHANGED <<parameters, group_errors, allow_none_defaults, json_cache, jwt_cache,
                   args, kwargs, idx, errors, handler_calls, handler_args, trace, ncalls,
                   arg_dictionary, call_kwargs, probe>>

(* func raises: line 316 stands outside the try block, the exception       *)
(* leaves the wrapper                                                      *)
CorsRaise(exc) ==
    /\ probe.op = "cors"
    /\ pc = "func"
    /\ pc' = "done"
    /\ func_outcome' = [kind |-> "raise", exc |-> exc]
    /\ response' = [kind |-> "raise", exc |-> exc]
    /\ UNCHANGED <<parameters, group_errors, allow_none_defaults, json_cache, jwt_cache,
                   args, kwargs, idx, errors, handler_calls, handler_args, trace, log,
                   ncalls, arg_dictionary, call_kwargs, probe>>

NextCors ==
    \/ CorsCall
    \/ \E resp \in CorsResponses : CorsReturn(resp)
    \/ \E exc \in FuncExceptions : CorsRaise(exc)

SpecCors == InitCors /\ [][NextCors]_vars

-----------------------------------------------------------------------------
(* decorators.py: validate(parameters, group_errors), lines 223-260 *)

(* ValidatedParameter(func_param_name, validators): classes.py 78-101 *)
ValidatedParameter(func_param_name, validators) ==
    [func_param_name |-> func_param_name, validators |-> validators]

EXCEPTION_LOG_MESSAGE_PATHLESS == "%s: %s in argument %s"

(* where the try block of lines 239-249 ended: the errors so far, the      *)
(* exception raised if any, the response returned from within the loop if  *)
(* any, what was logged, and the parameters reached, in order              *)
Checked(errs, exc, resp, lg, reached) ==
    [errors |-> errs, exc |-> exc, response |-> resp, log |-> lg, reached |-> reached]

(* mutant: the loop goes on after a failing parameter whatever             *)
(* group_errors is                                                         *)
RECURSIVE ValidateParameters(_, _, _, _, _, _)
ParamInvalid_NeverStops(params, i, ad, group, errs, reached) ==
    ValidateParameters(params, i + 1, ad, group, errs, reached)

(* lines 247-249: the parameter failed and its group is in errs *)
ParamInvalid(params, i, ad, group, errs, reached) ==
    IF ~group
    THEN Checked(errs, "", failure_errors(errs), <<ValidateLog(errs)>>, reached)
    ELSE ValidateParameters(params, i + 1, ad, group, errs, reached)

(* lines 244-246, v what param.validate(param_val, group_errors) gave *)
ParamValidated(params, i, ad, group, errs, reached, v) ==
    IF ~v.r.ok THEN Checked(errs, v.r.exc, NoResponse, <<>>, reached)
    ELSE IF v.r.val # <<>>
         THEN ParamInvalid(params, i, ad, group,
                           Append(errs, [key |-> params[i].func_param_name,
                                         errors |-> v.r.val]), reached)
         ELSE ValidateParameters(params, i + 1, ad, group, errs, reached)

(* `for param in parameters` of lines 242-249 from the i-th parameter on;  *)
(* arg_dictionary[param.func_param_name] is a KeyError for a name that is  *)
(* no argument of the call                                                 *)
ValidateParameters(params, i, ad, group, errs, reached) ==
    IF i > Len(params) THEN Checked(errs, "", NoResponse, <<>>, reached)
    ELSE IF params[i].func_param_name \notin DOMAIN ad
         THEN Checked(errs, "KeyError", NoResponse, <<>>, Append(reached, i))
         ELSE ParamValidated(params, i, ad, group, errs, Append(reached, i),
                             ValidatedParameter_validate(params[i],
                                 ad[params[i].func_param_name], group))

(* the log of line 251 *)
PathlessLog(exc, func_param_name) ==
    [msg |-> EXCEPTION_LOG_MESSAGE_PATHLESS, exc |-> exc, argument |-> func_param_name]

(* what the wrapper has done when it returns or is about to call func:     *)
(* invoke tells which                                                      *)
ValidateEnd(chk, resp, lg, invoke) ==
    [errors |-> chk.errors, reached |-> chk.reached, response |-> resp,
     log |-> chk.log \o lg, invoke |-> invoke]

(* lines 250-259 after the try block ended as chk tells; the except clause *)
(* reads param, a local that is unbound when no parameter was reached      *)
ValidateAfter(params, group, chk) ==
    IF chk.exc # ""
    THEN IF chk.reached = <<>>
         THEN ValidateEnd(chk, [kind |-> "raise", exc |-> "UnboundLocalError"], <<>>, FALSE)
         ELSE ValidateEnd(chk, failure_message(ERROR_MESSAGE),
                  <<PathlessLog(chk.exc,
                        params[chk.reached[Len(chk.reached)]].func_param_name)>>, FALSE)
    ELSE IF chk.response.kind # "none" THEN ValidateEnd(chk, chk.response, <<>>, FALSE)
    ELSE IF group /\ chk.errors # <<>>
         THEN ValidateEnd(chk, failure_errors(chk.errors), <<ValidateLog(chk.errors)>>, FALSE)
         ELSE ValidateEnd(chk, NoResponse, <<>>, TRUE)

(* lines 239-249 with arg_dictionary the outcome of all_func_args *)
ValidateFrom(params, group, ad) ==
    IF ~ad.ok THEN Checked(<<>>, ad.exc, NoResponse, <<>>, <<>>)
    ELSE ValidateParameters(params, 1, ad.val, group, <<>>, <<>>)

(* the wrapper of validate up to its return or its call of func *)
validate(params, group, a, kw) ==
    ValidateAfter(params, group, ValidateFrom(params, group, all_func_args(a, kw)))

(* ---- inputs of validate ---- *)

vpEvent ==
    ValidatedParameter(EVENT, <<Instance("Minimum", PyInt(2)),
                                Instance("Maximum", PyInt(4))>>)
vpEventMax == ValidatedParameter(EVENT, <<Instance("Maximum", PyInt(0))>>)
vpContext ==
    ValidatedParameter(CONTEXT, <<InstanceMsg("RegexValidator", PyStr(RE_DIGITS), "bad")>>)
vpA == ValidatedParameter(kA, <<Class("Mandatory"), Instance("MinLength", PyInt(2))>>)
vpFree == ValidatedParameter(CONTEXT, <<>>)

ValidatedParameterLists ==
    { <<>>, <<vpEvent>>, <<vpEvent, vpContext>>, <<vpContext, vpEvent>>,
      <<vpEvent, vpContext, vpA>>, <<vpA, vpFree, vpEvent>>, <<vpEvent, vpEventMax>> }

ValidateCalls ==
    [args : { <<PyInt(2), PyStr(<<"7">>)>>, <<PyInt(1), PyStr(<<"g", "b", "p">>)>>,
              <<PyInt(5), PyNone>>, <<PyInt(1), PyInt(1)>>, <<PyInt(1)>>,
              <<PyInt(1), PyNone, PyInt(0)>> },
     kwargs : { NoItems, (kA :> PyStr(<<>>)), (kA :> PyStr(<<"g", "b", "p">>)) }]

(* ---- the wrapper of validate as a state machine ---- *)

InitValidateDecorator ==
    /\ Idle
    /\ parameters \in ValidatedParameterLists
    /\ group_errors \in BOOLEAN
    /\ allow_none_defaults = FALSE
    /\ probe = [op |-> "validate_decorator", reached |-> <<>>]

(* the state after the wrapper ran to e with the arguments of the call c *)
ValidateTo(c, e) ==
    /\ args' = c.args
    /\ kwargs' = c.kwargs
    /\ call_kwargs' = c.kwargs
    /\ errors' = e.errors
    /\ probe' = [probe EXCEPT !.reached = e.reached]
    /\ log' = log \o e.log
    /\ response' = e.response
    /\ pc' = IF e.invoke THEN "func" ELSE "done"
    /\ handler_calls' = IF e.invoke THEN handler_calls + 1 ELSE handler_calls
    /\ handler_args' = IF e.invoke THEN [args |-> c.args, kwargs |-> c.kwargs]
                       ELSE handler_args

(* a call c of the handler decorated with validate: lines 238-259, up to   *)
(* the return of a failure or to the call of func                          *)
ValidateCall(c) ==
    /\ probe.op = "validate_decorator"
    /\ pc = "idle"
    /\ ncalls' = ncalls + 1
    /\ ValidateTo(c, validate(parameters, group_errors, c.args, c.kwargs))
    /\ UNCHANGED <<parameters, group_errors, allow_none_defaults, json_cache, jwt_cache,
                   idx, trace, arg_dictionary, func_outcome>>

NextValidateDecorator ==
    \/ \E c \in ValidateCalls : ValidateCall(c)
    \/ FuncReturn
    \/ FuncRaise

SpecValidateDecorator == InitValidateDecorator /\ [][NextValidateDecorator]_vars

-----------------------------------------------------------------------------
(* decoders.py: the two lru_cache-wrapped decoders under a run of decodes *)

(* the texts decoded one after the other to fill the JSON cache: str(1),   *)
(* str(2), ...                                                             *)
MaxFill == 129

(* the decodes that follow *)
MaxCacheCalls == 3

TXT_ONE == <<"1">>

CacheDecodes ==
    { [annotation |-> JSON, text |-> PyStr(TXT_ONE)],
      [annotation |-> JSON, text |-> PyStr(TXT_OBJ)],
      [annotation |-> JSON, text |-> PyStr(TXT_BAD)],
      [annotation |-> JWT, text |-> PyStr(TXT_JWT)] }

InitCache ==
    /\ Idle
    /\ parameters = <<>>
    /\ group_errors = FALSE
    /\ allow_none_defaults = FALSE
    /\ probe = [op |-> "cache", filled |-> 0, calls |-> <<>>]

(* cache_info() of a cache *)
cache_info(cache) ==
    [hits |-> cache.hits, misses |-> cache.misses, currsize |-> Len(cache.entries)]

(* the cache that the decoder of an annotation is wrapped with *)
CacheOf(annotation, jc, wc) == IF annotation = JSON THEN jc ELSE wc

(* decode(annotation, str(probe.filled + 1)) before any other decode *)
CacheFill ==
    /\ probe.op = "cache"
    /\ probe.calls = <<>>
    /\ probe.filled < MaxFill
    /\ probe' = [probe EXCEPT !.filled = @ + 1]
    /\ json_cache' = decode(PyStr(JSON), PyStr(IntStr(probe.filled + 1)),
                            json_cache, jwt_cache).json_cache
    /\ UNCHANGED <<parameters, group_errors, allow_none_defaults, jwt_cache, pc, args,
                   kwargs, idx, errors, response, handler_calls, handler_args, trace,
                   log, ncalls, arg_dictionary, call_kwargs, func_outcome>>

(* the state after decode(c.annotation, c.text) gave d *)
CacheDecoded(c, d) ==
    /\ json_cache' = d.json_cache
    /\ jwt_cache' = d.jwt_cache
    /\ log' = log \o d.log
    /\ probe' = [probe EXCEPT !.calls = Append(@,
                     [annotation |-> c.annotation, text |-> c.text, r |-> d.r,
                      before |-> cache_info(CacheOf(c.annotation, json_cache, jwt_cache)),
                      after |-> cache_info(CacheOf(c.annotation, d.json_cache,
                                                   d.jwt_cache))])]

(* decode(c.annotation, c.text), as extract_value calls it for a path key  *)
(* with the annotation                                                     *)
CacheDecode(c) ==
    /\ probe.op = "cache"
    /\ Len(probe.calls) < MaxCacheCalls
    /\ CacheDecoded(c, decode(PyStr(c.annotation), c.text, json_cache, jwt_cache))
    /\ UNCHANGED <<parameters, group_errors, allow_none_defaults, pc, args, kwargs, idx,
                   errors, response, handler_calls, handler_args, trace, ncalls,
                   arg_dictionary, call_kwargs, func_outcome>>

NextCache ==
    \/ CacheFill
    \/ \E c \in CacheDecodes : CacheDecode(c)

SpecCache == InitCache /\ [][NextCache]_vars

-----------------------------------------------------------------------------
(* decorators.py: handlers decorated with the same Parameter objects.      *)
(* parameters is the list of Parameter objects that every decorator is     *)
(* given; the objects are shared, the wrappers hold references to them     *)

(* `for param in parameters: param.func_param_name = "event"`, lines 46-47 *)
extract_from_event(params) ==
    [i \in 1..Len(params) |-> [params[i] EXCEPT !.func_param_name = PyStr(EVENT)]]

(* `for param in parameters: param.func_param_name = "context"`, 66-67 *)
extract_from_context(params) ==
    [i \in 1..Len(params) |-> [params[i] EXCEPT !.func_param_name = PyStr(CONTEXT)]]

(* the Parameter objects after the decorator of the kind is applied *)
Decorated(kind, params) ==
    IF kind = "extract_from_event" THEN extract_from_event(params)
    ELSE extract_from_context(params)

(* the locals of the wrapper of extract and the objects it shares with the *)
(* other wrappers, while the loop of lines 97-107 runs                     *)
ExtractState(params, jc, wc, errs, kw, lg, resp) ==
    [parameters |-> params, json_cache |-> jc, jwt_cache |-> wc, errors |-> errs,
     kwargs |-> kw, log |-> lg, response |-> resp]

(* the loop of lines 97-112 from the i-th parameter on, b being what the   *)
(* i-th iteration did                                                      *)
RECURSIVE ExtractLoop(_, _, _, _, _)
ExtractIterated(st, i, argd, group, allow_none, b) ==
    IF b.returns
    THEN ExtractState([st.parameters EXCEPT ![i] = b.param], b.json_cache, b.jwt_cache,
                      b.errors, b.kwargs, st.log \o b.log, b.response)
    ELSE ExtractLoop(ExtractState([st.parameters EXCEPT ![i] = b.param], b.json_cache,
                                  b.jwt_cache, b.errors, b.kwargs, st.log \o b.log,
                                  NoResponse),
                     i + 1, argd, group, allow_none)

ExtractLoop(st, i, argd, group, allow_none) ==
    IF i > Len(st.parameters) THEN st
    ELSE ExtractIterated(st, i, argd, group, allow_none,
                         LoopBody(st.parameters[i], argd, st.kwargs, st.errors, group,
                                  allow_none, st.json_cache, st.jwt_cache))

(* lines 94-112 with argd the outcome of all_func_args *)
ExtractTry(params, group, allow_none, jc, wc, kw, argd) ==
    IF ~argd.ok
    THEN ExtractState(params, jc, wc, <<>>, kw, <<ExceptionLog(argd.exc, FALSE, PyNone)>>,
                      IF ExceptClauseCatches(argd.exc) THEN failure_message(ERROR_MESSAGE)
                      ELSE [kind |-> "raise", exc |-> argd.exc])
    ELSE ExtractLoop(ExtractState(params, jc, wc, <<>>, kw, <<>>, NoResponse), 1,
                     argd.val, group, allow_none)

(* the else clause, lines 113-118: the wrapper returns a failure, or       *)
(* invokes func                                                            *)
ExtractElse(st, group) ==
    IF st.response.kind # "none" THEN [st |-> st, invoke |-> FALSE]
    ELSE IF group /\ st.errors # <<>>
         THEN [st |-> [st EXCEPT !.response = failure_errors(st.errors),
                                 !.log = Append(@, ValidateLog(st.errors))],
               invoke |-> FALSE]
         ELSE [st |-> st, invoke |-> TRUE]

(* the wrapper of extract up to its return or its call of func *)
ExtractWrapper(params, group, allow_none, jc, wc, c) ==
    ExtractElse(ExtractTry(params, group, allow_none, jc, wc, c.kwargs,
                           all_func_args(c.args, c.kwargs)), group)

(* ---- what the handlers do with the values they are given ---- *)

kSeen == <<"s", "e", "e", "n">>

(* a mapping or a list after the handler set value["seen"] = 1, or         *)
(* appended 1; other values cannot be modified in place                    *)
ModifiedInPlace(v) ==
    CASE v.t = "dict" -> PyDict(Put(v.m, kSeen, PyInt(1)))
      [] v.t = "list" -> PyList(Append(v.l, PyInt(1)))
      [] OTHER -> v

(* the value that param binds is the very object decode_json returned, for *)
(* a path of one key annotated with [json] whose value in the source       *)
(* argument is the text t: decoders.py 49-52 returns the cached object     *)
BindsCachedObject(param, argd, t) ==
    /\ param.path.t = "str"
    /\ Len(PathKeys(param.path.s)) = 1
    /\ get_annotations_from_key(PathKeys(param.path.s)[1]).annotation = PyStr(JSON)
    /\ SourceArgument(param, argd).ok
    /\ SourceArgument(param, argd).val.t = "dict"
    /\ get_annotations_from_key(PathKeys(param.path.s)[1]).real_key
           \in DOMAIN SourceArgument(param, argd).val.m
    /\ SourceArgument(param, argd).val.m[
           get_annotations_from_key(PathKeys(param.path.s)[1]).real_key] = t

(* the JSON cache after a handler modified in place the decoded values it  *)
(* was given: the entries hold the same objects                            *)
CacheAfterHandler(cache, params, argd) ==
    [cache EXCEPT !.entries =
        [e \in 1..Len(cache.entries) |->
            IF \E n \in 1..Len(params) : BindsCachedObject(params[n], argd, cache.entries[e].key)
            THEN [cache.entries[e] EXCEPT !.val = ModifiedInPlace(@)]
            ELSE cache.entries[e]]]

(* ---- inputs ---- *)

Path_j == PyStr(<<"j", "[", "j", "s", "o", "n", "]">>)
TXT_EMPTY_OBJ == <<"{", "}">>

(* Parameter(path), Parameter(path, validators=[Mandatory]): the source    *)
(* argument name and the output name are left to the decorator and to the  *)
(* path                                                                    *)
pBody == Parameter(Path_j, PyNone, <<>>, PyNone, PyNone)
pField == Parameter(Path_a_b, PyNone, <<Class("Mandatory")>>, PyNone, PyNone)
pJsonField == Parameter(Path_j_c, PyNone, <<>>, PyNone, PyNone)

SharedParameterLists == { <<pField, pBody>>, <<pBody, pJsonField>> }

evOther == DictOf(<< <<kA, DictOf(<< <<kB, PyStr(<<"9">>)>> >>)>>,
                     <<kJ, PyStr(TXT_EMPTY_OBJ)>> >>)

SharedCalls ==
    { [args |-> <<evOk, ctxOk>>, kwargs |-> NoItems],
      [args |-> <<evMissing, ctxOk>>, kwargs |-> NoItems],
      [args |-> <<evOther, evOk>>, kwargs |-> NoItems] }

DecoratorKinds == {"extract_from_event", "extract_from_context"}

MaxHandlers == 2
MaxInvocations == 2

(* ---- the handlers and their invocations as a state machine ---- *)

InitShared ==
    /\ Idle
    /\ parameters \in SharedParameterLists
    /\ group_errors \in BOOLEAN
    /\ allow_none_defaults = FALSE
    /\ probe \in {[op |-> "shared", modifies |-> m, constructed |-> parameters,
                   handlers |-> <<>>, history |-> <<>>] : m \in BOOLEAN}

(* @extract_from_event(parameters, group_errors) or @extract_from_context  *)
(* is applied to one more handler; probe.modifies tells whether the        *)
(* handlers of the program modify in place what they are given             *)
Decorate(kind) ==
    /\ probe.op = "shared"
    /\ Len(probe.handlers) < MaxHandlers
    /\ parameters' = Decorated(kind, parameters)
    /\ probe' = [probe EXCEPT !.handlers = Append(@, [decorator |-> kind])]
    /\ UNCHANGED <<group_errors, allow_none_defaults, json_cache, jwt_cache, pc, args,
                   kwargs, idx, errors, response, handler_calls, handler_args, trace,
                   log, ncalls, arg_dictionary, call_kwargs, func_outcome>>

(* what func returns: the keyword arguments as it was given them *)
HandlerReturns(w) ==
    IF w.invoke THEN [kind |-> "return", value |-> PyDict(w.st.kwargs)] ELSE w.st.response

(* the state after the h-th handler was called with c and its wrapper did  *)
(* w; func, when invoked, returns and, if it is one that modifies, has     *)
(* modified the decoded values it was given                                *)
Invoked(h, c, w) ==
    /\ parameters' = w.st.parameters
    /\ jwt_cache' = w.st.jwt_cache
    /\ json_cache' = IF w.invoke /\ probe.modifies
                     THEN CacheAfterHandler(w.st.json_cache, w.st.parameters,
                                            all_func_args(c.args, c.kwargs).val)
                     ELSE w.st.json_cache
    /\ args' = c.args
    /\ call_kwargs' = c.kwargs
    /\ kwargs' = w.st.kwargs
    /\ errors' = w.st.errors
    /\ log' = w.st.log
    /\ response' = HandlerReturns(w)
    /\ handler_calls' = IF w.invoke THEN handler_calls + 1 ELSE handler_calls
    /\ probe' = [probe EXCEPT !.history = Append(@,
                     [handler |-> h, call |-> c, response |-> HandlerReturns(w),
                      invoked |-> w.invoke, given |-> w.st.kwargs,
                      sources |-> [n \in 1..Len(parameters) |->
                                      parameters[n].func_param_name],
                      decorated |-> Len(probe.handlers),
                      modified |-> w.invoke /\ probe.modifies])]

(* the h-th handler is called with c: its wrapper runs to the return,      *)
(* lines 93-118, func included                                             *)
Invoke(h, c) ==
    /\ probe.op = "shared"
    /\ h \in 1..Len(probe.handlers)
    /\ Len(probe.history) < MaxInvocations
    /\ Invoked(h, c, ExtractWrapper(parameters, group_errors, allow_none_defaults,
                                    json_cache, jwt_cache, c))
    /\ UNCHANGED <<group_errors, allow_none_defaults, pc, idx, handler_args, trace,
                   ncalls, arg_dictionary, func_outcome>>

NextShared ==
    \/ \E kind \in DecoratorKinds : Decorate(kind)
    \/ \E h \in 1..MaxHandlers, c \in SharedCalls : Invoke(h, c)

SpecShared == InitShared /\ [][NextShared]_vars

-----------------------------------------------------------------------------
(* invocations that run concurrently in threads: the wrappers share the    *)
(* two module-level caches and the Parameter objects, and a thread may be  *)
(* switched out between any two accesses to them                           *)

MaxThreads == 2

Threads == 1..MaxThreads

(* mutant: the result is stored without looking for the key again *)
LruStore_NoRecheck(cache, v, res) ==
    IF ~res.ok THEN cache
    ELSE [cache EXCEPT !.entries = Append(LruKept(cache), [key |-> v, val |-> res.val])]

(* decoders.py 49, 55, a miss of the lru_cache after the wrapped function  *)
(* returned or raised res: the result is stored unless it is an exception  *)
(* or another thread stored the key meanwhile                              *)
LruStore(cache, v, res) ==
    IF ~res.ok \/ CachePos(cache, v) # 0 THEN cache
    ELSE [cache EXCEPT !.entries = Append(LruKept(cache), [key |-> v, val |-> res.val])]

(* the cache of the decoder the annotation names *)
CacheNamed(annotation, jc, wc) == IF annotation = JSON THEN jc ELSE wc

(* the key of the walk state st is present and its value goes to a cached  *)
(* decoder that does not hold it yet: classes.py 182-183, decoders.py      *)
(* 38-42                                                                   *)
DecodeMisses(st, ak, jc, wc) ==
    /\ st.r.ok
    /\ Truthy(st.r.val)
    /\ Contains(st.r.val, ak.real_key) = Ok(TRUE)
    /\ GetItemStr(st.r.val, ak.real_key).ok
    /\ ak.annotation.t = "str"
    /\ ak.annotation.s \in {JSON, JWT}
    /\ Hashable(GetItemStr(st.r.val, ak.real_key).val)
    /\ CachePos(CacheNamed(ak.annotation.s, jc, wc),
                GetItemStr(st.r.val, ak.real_key).val) = 0

(* what the wrapped function of the decoder gives *)
DecoderResult(annotation, value) ==
    IF annotation = JSON THEN JsonLoads(value) ELSE JwtDecode(value)

(* a thread: where its wrapper is, and the wrapper's locals *)
ThreadReady ==
    [at |-> "ready", call |-> [args |-> <<>>, kwargs |-> NoItems], argd |-> NoItems,
     i |-> 1, k |-> 1, st |-> WalkStart(PyNone, EmptyCache, EmptyCache),
     pending |-> [annotation |-> <<>>, value |-> PyNone],
     errors |-> <<>>, kwargs |-> NoItems, response |-> NoResponse]

ThreadDone(th, resp) == [th EXCEPT !.at = "done", !.response = resp]

InitThreads ==
    /\ Idle
    /\ parameters \in {extract_from_event(params) : params \in SharedParameterLists}
    /\ group_errors \in BOOLEAN
    /\ allow_none_defaults = FALSE
    /\ probe = [op |-> "threads", constructed |-> parameters,
                threads |-> [t \in Threads |-> ThreadReady]]

ThreadOf(t) == probe.threads[t]

ThreadTo(t, th) == probe' = [probe EXCEPT !.threads[t] = th]

(* where the walk goes after a key: the next key, or lines 187-188 *)
AfterKey(th, st) ==
    [th EXCEPT !.st = st, !.k = @ + 1,
               !.at = IF st.r.ok /\ th.k < Len(PathKeys(parameters[th.i].path.s))
                      THEN "walk" ELSE "name"]

(* the else clause, lines 113-118, on the locals of the thread *)
ThreadElse(th, errs, kw) ==
    ThreadDone([th EXCEPT !.errors = errs, !.kwargs = kw],
               HandlerReturns(ExtractElse(ExtractState(parameters, json_cache, jwt_cache,
                                                       errs, kw, <<>>, NoResponse),
                                          group_errors)))

(* a thread calls the handler: lines 93-96 *)
ThreadStarted(t, c, argd) ==
    IF ~argd.ok
    THEN ThreadTo(t, ThreadDone([ThreadOf(t) EXCEPT !.call = c],
                                ExtractTry(parameters, group_errors, allow_none_defaults,
                                           json_cache, jwt_cache, c.kwargs, argd).response))
    ELSE IF parameters = <<>>
    THEN ThreadTo(t, ThreadElse([ThreadOf(t) EXCEPT !.call = c], <<>>, c.kwargs))
    ELSE ThreadTo(t, [ThreadOf(t) EXCEPT !.call = c, !.argd = argd.val,
                                         !.kwargs = c.kwargs, !.at = "source"])

ThreadStart(t, c) ==
    /\ probe.op = "threads"
    /\ ThreadOf(t).at = "ready"
    /\ ThreadStarted(t, c, all_func_args(c.args, c.kwargs))
    /\ UNCHANGED <<parameters, group_errors, allow_none_defaults, json_cache, jwt_cache,
                   pc, args, kwargs, idx, errors, response, handler_calls, handler_args,
                   trace, log, ncalls, arg_dictionary, call_kwargs, func_outcome>>

(* line 98 and the head of extract_value, line 180 *)
ThreadSourced(t, th, param, src) ==
    IF ~src.ok \/ param.path.t # "str"
    THEN ThreadTo(t, ThreadDone(th,
             Caught(param, json_cache, jwt_cache, th.errors, th.kwargs, <<>>, src, <<>>,
                    IF ~src.ok THEN src.exc ELSE "AttributeError").response))
    ELSE ThreadTo(t, [th EXCEPT !.st = WalkStart(src.val, EmptyCache, EmptyCache),
                                !.k = 1,
                                !.at = IF PathKeys(param.path.s) = <<>>
                                       THEN "name" ELSE "walk"])

ThreadSource(t) ==
    /\ probe.op = "threads"
    /\ ThreadOf(t).at = "source"
    /\ ThreadSourced(t, ThreadOf(t), parameters[ThreadOf(t).i],
                     SourceArgument(parameters[ThreadOf(t).i], ThreadOf(t).argd))
    /\ UNCHANGED <<parameters, group_errors, allow_none_defaults, json_cache, jwt_cache,
                   pc, args, kwargs, idx, errors, response, handler_calls, handler_args,
                   trace, log, ncalls, arg_dictionary, call_kwargs, func_outcome>>

(* the walk state of the thread on the caches as they are now *)
OnCaches(st) == [st EXCEPT !.json_cache = json_cache, !.jwt_cache = jwt_cache]

OffCaches(st) == [st EXCEPT !.json_cache = EmptyCache, !.jwt_cache = EmptyCache]

(* the lookup of a cached decoder misses: the miss is counted and the      *)
(* wrapped function is entered                                             *)
ThreadMissed(t, th, ak, value) ==
    /\ ThreadTo(t, [th EXCEPT !.at = "decoding",
                              !.st = [@ EXCEPT !.bound = TRUE, !.real_key = ak.real_key],
                              !.pending = [annotation |-> ak.annotation.s,
                                           value |-> value]])
    /\ json_cache' = IF ak.annotation.s = JSON
                     THEN [json_cache EXCEPT !.misses = @ + 1] ELSE json_cache
    /\ jwt_cache' = IF ak.annotation.s = JWT
                    THEN [jwt_cache EXCEPT !.misses = @ + 1] ELSE jwt_cache

(* one key of the path without a miss: lines 181-185 at once *)
ThreadWalked(t, th, st) ==
    /\ ThreadTo(t, AfterKey(th, OffCaches(st)))
    /\ json_cache' = st.json_cache
    /\ jwt_cache' = st.jwt_cache

(* one iteration of the loop of extract_value, up to the return of the     *)
(* cache lookup                                                            *)
ThreadKeyed(t, th, param, ak) ==
    IF DecodeMisses(th.st, ak, json_cache, jwt_cache)
    THEN ThreadMissed(t, th, ak, GetItemStr(th.st.r.val, ak.real_key).val)
    ELSE ThreadWalked(t, th, WalkKey(param, OnCaches(th.st), ak))

ThreadKey(t) ==
    /\ probe.op = "threads"
    /\ ThreadOf(t).at = "walk"
    /\ ThreadKeyed(t, ThreadOf(t), parameters[ThreadOf(t).i],
                   get_annotations_from_key(
                       PathKeys(parameters[ThreadOf(t).i].path.s)[ThreadOf(t).k]))
    /\ UNCHANGED <<parameters, group_errors, allow_none_defaults,
                   pc, args, kwargs, idx, errors, response, handler_calls, handler_args,
                   trace, log, ncalls, arg_dictionary, call_kwargs, func_outcome>>

(* the wrapped function returns or raises, and the cache takes the result *)
ThreadStored(t, th, res) ==
    /\ ThreadTo(t, AfterKey(th, [th.st EXCEPT !.r = res]))
    /\ json_cache' = IF th.pending.annotation = JSON
                     THEN LruStore(json_cache, th.pending.value, res) ELSE json_cache
    /\ jwt_cache' = IF th.pending.annotation = JWT
                    THEN LruStore(jwt_cache, th.pending.value, res) ELSE jwt_cache

ThreadStore(t) ==
    /\ probe.op = "threads"
    /\ ThreadOf(t).at = "decoding"
    /\ ThreadStored(t, ThreadOf(t),
                    DecoderResult(ThreadOf(t).pending.annotation, ThreadOf(t).pending.value))
    /\ UNCHANGED <<parameters, group_errors, allow_none_defaults,
                   pc, args, kwargs, idx, errors, response, handler_calls, handler_args,
                   trace, log, ncalls, arg_dictionary, call_kwargs, func_outcome>>

(* `if not self._name`, line 187 *)
ThreadNamed(th, param) ==
    IF ~th.st.r.ok \/ Truthy(param.name) THEN [th EXCEPT !.at = "validate"]
    ELSE IF ~th.st.bound
    THEN [th EXCEPT !.at = "validate", !.st.r = Raise("UnboundLocalError")]
    ELSE [th EXCEPT !.at = "naming"]

ThreadName(t) ==
    /\ probe.op = "threads"
    /\ ThreadOf(t).at = "name"
    /\ ThreadTo(t, ThreadNamed(ThreadOf(t), parameters[ThreadOf(t).i]))
    /\ UNCHANGED <<parameters, group_errors, allow_none_defaults, json_cache, jwt_cache,
                   pc, args, kwargs, idx, errors, response, handler_calls, handler_args,
                   trace, log, ncalls, arg_dictionary, call_kwargs, func_outcome>>

(* `self._name = real_key`, line 188 *)
ThreadSetName(t) ==
    /\ probe.op = "threads"
    /\ ThreadOf(t).at = "naming"
    /\ parameters' = [parameters EXCEPT ![ThreadOf(t).i].name =
                                            PyStr(ThreadOf(t).st.real_key)]
    /\ ThreadTo(t, [ThreadOf(t) EXCEPT !.at = "validate"])
    /\ UNCHANGED <<group_errors, allow_none_defaults, json_cache, jwt_cache,
                   pc, args, kwargs, idx, errors, response, handler_calls, handler_args,
                   trace, log, ncalls, arg_dictionary, call_kwargs, func_outcome>>

(* lines 100-107 of the wrapper for the value extracted, then the next     *)
(* parameter or the end of the wrapper, b being what lines 100-107 did     *)
ThreadValidated(th, b) ==
    IF b.returns THEN ThreadDone(th, b.response)
    ELSE IF th.i < Len(parameters)
    THEN [th EXCEPT !.i = @ + 1, !.errors = b.errors, !.kwargs = b.kwargs,
                    !.at = "source"]
    ELSE ThreadElse(th, b.errors, b.kwargs)

ThreadValidate(t) ==
    /\ probe.op = "threads"
    /\ ThreadOf(t).at = "validate"
    /\ ThreadTo(t, ThreadValidated(ThreadOf(t),
           AfterExtract(parameters[ThreadOf(t).i], ThreadOf(t).kwargs, ThreadOf(t).errors,
                        group_errors, allow_none_defaults,
                        Extracted(OnCaches(ThreadOf(t).st), ThreadOf(t).st.r,
                                  parameters[ThreadOf(t).i].name))))
    /\ UNCHANGED <<parameters, group_errors, allow_none_defaults, json_cache, jwt_cache,
                   pc, args, kwargs, idx, errors, response, handler_calls, handler_args,
                   trace, log, ncalls, arg_dictionary, call_kwargs, func_outcome>>

NextThreads ==
    \/ \E t \in Threads, c \in SharedCalls : ThreadStart(t, c)
    \/ \E t \in Threads : ThreadSource(t)
    \/ \E t \in Threads : ThreadKey(t)
    \/ \E t \in Threads : ThreadStore(t)
    \/ \E t \in Threads : ThreadName(t)
    \/ \E t \in Threads : ThreadSetName(t)
    \/ \E t \in Threads : ThreadValidate(t)

SpecThreads == InitThreads /\ [][NextThreads]_vars

-----------------------------------------------------------------------------
(* what the claims speak of, read off the history of the running call *)

(* the k-th parameter processed in this call failed validation *)
FailedValidation(k) == trace[k].step.exc = "" /\ trace[k].step.errors # <<>>

(* an exception was raised while the k-th parameter was processed *)
RaisedAt(k) == trace[k].step.exc # ""

(* an exception was raised inside the try block of this call *)
RaisedInTry ==
    \/ \E k \in 1..Len(trace) : RaisedAt(k)
    \/ (pc = "done" /\ trace = <<>> /\ ~all_func_args(args, call_kwargs).ok)

(* the error group of the k-th parameter for the value extracted for it *)
GroupOf(k, group) == validate_path(parameters[k], trace[k].step.value.val, group).r.val

(* the error groups of the failing parameters among the first n, in order *)
RECURSIVE GroupsUpTo(_)
GroupsUpTo(n) ==
    IF n = 0 THEN <<>>
    ELSE GroupsUpTo(n - 1) \o (IF FailedValidation(n) THEN GroupOf(n, TRUE) ELSE <<>>)

(* the caller's keyword arguments plus one per parameter, among the first  *)
(* n, whose value passed and is not None (or None is allowed)              *)
RECURSIVE KwargsUpTo(_)
KwargsUpTo(n) ==
    IF n = 0 THEN call_kwargs
    ELSE IF /\ trace[n].step.exc = ""
            /\ trace[n].step.errors = <<>>
            /\ (allow_none_defaults \/ trace[n].step.value.val.t # "none")
         THEN Put(KwargsUpTo(n - 1), parameters[n].name.s, trace[n].step.value.val)
         ELSE KwargsUpTo(n - 1)

-----------------------------------------------------------------------------
(* C1: with group_errors=False the parameters are processed in            *)
(* declaration order, and as soon as one parameter's value fails           *)
(* validation the wrapper returns statusCode 400 whose message list holds  *)
(* exactly that parameter's error group; no later parameter is extracted   *)
(* or validated (and the handler is not invoked).                          *)
C1_StopOnFirstError ==
    ~group_errors =>
        /\ Len(trace) <= Len(parameters)
        /\ \A k \in 1..Len(trace) : trace[k].i = k
        /\ \A k \in 1..Len(trace) :
              FailedValidation(k) =>
                  /\ k = Len(trace)
                  /\ pc = "done"
                  /\ handler_calls = 0
                  /\ Len(GroupOf(k, FALSE)) = 1
                  /\ response = failure_errors(GroupOf(k, FALSE))

(* a first parameter failed validation and a later one was left alone *)
C1_Witness ==
    /\ ~group_errors
    /\ pc = "done"
    /\ Len(trace) >= 1
    /\ Len(trace) < Len(parameters)
    /\ FailedValidation(Len(trace))
    /\ response.kind = "failure"

(* C2, as claimed: with group_errors=True every parameter is extracted    *)
(* and validated, and if at least one fails validation the wrapper returns *)
(* statusCode 400 whose message list holds one error group per failing    *)
(* parameter, in declaration order, and none for a parameter that passed.  *)
C2_AsClaimed ==
    (group_errors /\ pc = "done" /\ \E k \in 1..Len(trace) : FailedValidation(k)) =>
        /\ Len(trace) = Len(parameters)
        /\ response = failure_errors(GroupsUpTo(Len(trace)))

(* C2, amended: the same, for the calls in which no exception is raised    *)
(* while the arguments are collected and the parameters are extracted,     *)
(* validated and bound.                                                    *)
C2_GroupedErrors ==
    (group_errors /\ pc = "done" /\ ~RaisedInTry) =>
        /\ Len(trace) = Len(parameters)
        /\ \A k \in 1..Len(trace) : trace[k].i = k
        /\ (\E k \in 1..Len(trace) : FailedValidation(k))
              => /\ response = failure_errors(GroupsUpTo(Len(trace)))
                 /\ handler_calls = 0

(* two parameters failed, one passed, and the groups were returned *)
C2_Witness ==
    /\ group_errors
    /\ pc = "done"
    /\ ~RaisedInTry
    /\ Len(trace) = 3
    /\ FailedValidation(1) /\ ~FailedValidation(2) /\ FailedValidation(3)
    /\ response.kind = "failure"
    /\ Len(response.body.message.groups) = 2

(* C3: the wrapped handler is invoked at most once per call, and only if   *)
(* no parameter produced a validation error and no exception was raised    *)
(* during extraction; whenever the decorator returns a 400 envelope the    *)
(* handler has not been invoked; when invoked, it receives the original    *)
(* positional arguments plus the accumulated keyword arguments.            *)
C3_HandlerInvocation ==
    /\ handler_calls <= 1
    /\ handler_calls = 1 =>
          /\ Len(trace) = Len(parameters)
          /\ \A k \in 1..Len(trace) : ~FailedValidation(k) /\ ~RaisedAt(k)
          /\ ~RaisedInTry
          /\ handler_args.args = args
          /\ handler_args.kwargs = KwargsUpTo(Len(trace))
    /\ response.kind = "failure" => handler_calls = 0
    /\ (pc = "done" /\ ~RaisedInTry /\ \A k \in 1..Len(trace) : ~FailedValidation(k))
          => handler_calls = 1

(* the handler runs with two extracted keyword arguments *)
C3_Witness ==
    /\ handler_calls = 1
    /\ pc = "func"
    /\ Len(trace) >= 2
    /\ Cardinality(DOMAIN handler_args.kwargs) >= 2
    /\ Len(handler_args.args) = 2

(* C4: an exception raised while the wrapper selects the source argument,  *)
(* walks the path, decodes or validates is caught: the wrapper returns     *)
(* statusCode 400 with the message "Error extracting parameters", and      *)
(* nothing but an exception of the handler itself reaches the caller.      *)
C4_ExceptionsBecome400 ==
    /\ \A k \in 1..Len(trace) :
          RaisedAt(k) => /\ k = Len(trace)
                         /\ pc = "done"
                         /\ response = failure_message(ERROR_MESSAGE)
                         /\ handler_calls = 0
    /\ RaisedInTry => response = failure_message(ERROR_MESSAGE)
    /\ response.kind = "raise" => (handler_calls = 1 /\ func_outcome.kind = "raise")

(* malformed JSON was met after an earlier parameter was extracted *)
C4_Witness ==
    /\ pc = "done"
    /\ Len(trace) >= 2
    /\ trace[Len(trace)].step.exc = "JSONDecodeError"
    /\ response = failure_message(ERROR_MESSAGE)

(* C5: an exception raised by the wrapped handler itself, after extraction *)
(* succeeded, is not caught by the wrapper and reaches the caller          *)
(* unchanged.                                                              *)
C5_HandlerExceptionPropagates ==
    func_outcome.kind = "raise" =>
        /\ pc = "done"
        /\ response = [kind |-> "raise", exc |-> func_outcome.exc]

(* the handler raised after a parameter was extracted and bound *)
C5_Witness ==
    /\ func_outcome.kind = "raise"
    /\ handler_calls = 1
    /\ \E k \in 1..Len(trace) : trace[k].step.bound

-----------------------------------------------------------------------------
(* the walk the path describes, against which extract_value is compared:   *)
(* where the walk of the segments keys[i..] from the value cur ends.       *)
(* kind "end": every segment was found, val is the value reached;          *)
(* kind "absent": cur is a mapping without the key of segment at;          *)
(* kind "nonmapping": cur, at segment at, is not a mapping;                *)
(* kind "raise": decoding the value found at segment at raised             *)
WalkOf(kind, at, val) == [kind |-> kind, at |-> at, val |-> val]

RECURSIVE PathWalk(_, _, _)

PathWalkDecoded(cur, keys, i, d) ==
    IF d.r.ok THEN PathWalk(d.r.val, keys, i + 1) ELSE WalkOf("raise", i, cur)

PathWalkKey(cur, keys, i, ak) ==
    IF cur.t # "dict" THEN WalkOf("nonmapping", i, cur)
    ELSE IF ak.real_key \notin DOMAIN cur.m THEN WalkOf("absent", i, cur)
    ELSE PathWalkDecoded(cur, keys, i,
                         decode(ak.annotation, cur.m[ak.real_key], EmptyCache, EmptyCache))

PathWalk(cur, keys, i) ==
    IF i > Len(keys) THEN WalkOf("end", i, cur)
    ELSE PathWalkKey(cur, keys, i, get_annotations_from_key(keys[i]))

WalkedKeys == PathKeys(parameters[1].path.s)

(* the walk of the probe's input along the probe's path *)
WalkedPath == PathWalk(probe.dict_value, WalkedKeys, 1)

WalkDone == probe.op = "extract_value" /\ probe.done

(* C6: whenever the walk meets a mapping that lacks the key of a segment,  *)
(* the result of extract_value is the Parameter's default: the remaining   *)
(* segments are not applied to the default, whatever the path, the input   *)
(* and the default                                                         *)
C6_AbsentKeyGivesDefault ==
    (WalkDone /\ WalkedPath.kind = "absent")
        => probe.out.r = Ok(parameters[1].default)

(* C7: when every intermediate segment of the path resolves to a mapping   *)
(* and the key of the last segment is absent from its parent mapping,      *)
(* extract_value returns the configured default and raises nothing         *)
C7_MissingLeafGivesDefault ==
    (WalkDone /\ WalkedPath.kind = "absent" /\ WalkedPath.at = Len(WalkedKeys))
        => probe.out.r = Ok(parameters[1].default)

(* a nested mapping was walked down to a parent without the leaf key, and  *)
(* the default, which is not None, came back                               *)
C7_Witness ==
    /\ WalkDone
    /\ WalkedPath.kind = "absent"
    /\ WalkedPath.at = Len(WalkedKeys)
    /\ Len(WalkedKeys) = 3
    /\ WalkedPath.val # EmptyDict
    /\ parameters[1].default = PyInt(5)
    /\ probe.out.r = Ok(PyInt(5))

(* C8: when the current value of the walk is not a mapping (a string, a    *)
(* number, a list), no key is looked up in it and nothing is raised; the   *)
(* segment counts as absent and the default is substituted                 *)
C8_NonMappingCountsAsAbsent ==
    (WalkDone /\ WalkedPath.kind = "nonmapping" /\ WalkedPath.val.t \in {"str", "int", "list"})
        => /\ probe.out.r.ok
           /\ WalkedPath.at = Len(WalkedKeys) => probe.out.r = Ok(parameters[1].default)

-----------------------------------------------------------------------------
ValidatorDone == probe.op = "validator.validate" /\ probe.done

(* C9: Mandatory rejects None and the empty string; every other validator, *)
(* whatever its configuration, accepts None                                *)
C9_NoneAndMandatory ==
    ValidatorDone =>
        /\ (probe.validator.kind = "Mandatory" /\ probe.value \in {PyNone, PyStr(<<>>)})
              => probe.out.r = Ok(FALSE)
        /\ (probe.validator.kind # "Mandatory" /\ probe.value = PyNone)
              => probe.out.r = Ok(TRUE)

(* a configured Minimum was handed None and accepted it *)
C9_Witness ==
    /\ ValidatorDone
    /\ probe.validator.kind = "Minimum"
    /\ probe.validator.condition = PyInt(2)
    /\ probe.value = PyNone
    /\ probe.out.r = Ok(TRUE)

ValidateDone == probe.op = "validate" /\ probe.done

(* validator k of the probed parameter, applied to the probed value *)
Verdict(k) == validator_validate(parameters[1].validators[k], probe.value)

NoneRaises == \A k \in 1..Len(parameters[1].validators) : Verdict(k).ok

Failing == {k \in 1..Len(parameters[1].validators) : ~Verdict(k).val}

(* the messages of validators 1..n that fail, in declaration order *)
RECURSIVE FailingMessages(_)
FailingMessages(n) ==
    IF n = 0 THEN <<>>
    ELSE IF n \in Failing
         THEN Append(FailingMessages(n - 1),
                     FailureMessage(parameters[1].validators[n], probe.value))
         ELSE FailingMessages(n - 1)

FirstFailing == CHOOSE k \in Failing : \A j \in Failing : k <= j

(* C10: validate runs the validators in declaration order; without         *)
(* group_errors the list returned holds the message of the first failing   *)
(* validator alone and no later validator is evaluated; with group_errors  *)
(* it holds the message of every failing validator in declaration order,   *)
(* and every validator is evaluated                                        *)
C10_ValidateOrder ==
    (ValidateDone /\ NoneRaises) =>
        IF group_errors \/ Failing = {}
        THEN /\ probe.out.r = Ok(FailingMessages(Len(parameters[1].validators)))
             /\ probe.out.evaluated = parameters[1].validators
        ELSE /\ probe.out.r = Ok(FailingMessages(FirstFailing))
             /\ Len(probe.out.r.val) = 1
             /\ probe.out.evaluated = SubSeq(parameters[1].validators, 1, FirstFailing)

(* with group_errors the second and the third of three validators failed   *)
(* after the first passed, and both messages came back                     *)
C10_Witness ==
    /\ ValidateDone
    /\ NoneRaises
    /\ group_errors
    /\ Failing = {2, 3}
    /\ Len(probe.out.r.val) = 2
    /\ Len(probe.out.evaluated) = 3

-----------------------------------------------------------------------------
(* the parameters as they were given to extract, before any call named them *)
Unnamed(param) == [param EXCEPT !.name = PyNone]

Declared ==
    CHOOSE pl \in ParameterLists :
        /\ Len(pl) = Len(parameters)
        /\ \A i \in 1..Len(pl) : Unnamed(pl[i]) = Unnamed(parameters[i])

(* the text of a segment before its first "[" *)
RECURSIVE BeforeBracket(_)
BeforeBracket(seg) ==
    IF seg = <<>> \/ Head(seg) = ANNOTATIONS_START THEN <<>>
    ELSE <<Head(seg)>> \o BeforeBracket(Tail(seg))

(* the last segment of a path that is not empty *)
LastSegment(path) == PathKeys(path)[Len(PathKeys(path))]

(* the output name of the k-th declared parameter: var_name if one was     *)
(* given, otherwise the key of the last segment without its annotation     *)
OutputName(k) ==
    IF Declared[k].name.t = "str" /\ Declared[k].name.s # <<>>
    THEN Declared[k].name.s
    ELSE BeforeBracket(LastSegment(Declared[k].path.s))

(* the k-th parameter processed passed validation and nothing was raised   *)
PassedValidation(k) == trace[k].step.exc = "" /\ trace[k].step.errors = <<>>

(* no parameter processed after the k-th was bound under the name n *)
NotRebound(k, n) ==
    \A j \in (k + 1)..Len(trace) : ~(trace[j].step.bound /\ trace[j].step.name.s = n)

(* C11: a parameter that passes validation is bound as a keyword argument  *)
(* exactly when its value is not None or allow_none_defaults is True; the  *)
(* name is var_name if given, otherwise the key of the last path segment   *)
(* without its annotation; falsy values other than None are bound; a None  *)
(* that is not bound leaves the name out of the keyword arguments, so that *)
(* the default of the handler's signature applies                         *)
C11_BindsNonNull ==
    \A k \in 1..Len(trace) :
        PassedValidation(k) =>
            /\ trace[k].step.bound
                  <=> (trace[k].step.value.val # PyNone \/ allow_none_defaults)
            /\ trace[k].step.bound =>
                  /\ trace[k].step.name = PyStr(OutputName(k))
                  /\ OutputName(k) \in DOMAIN kwargs
                  /\ NotRebound(k, OutputName(k))
                        => kwargs[OutputName(k)] = trace[k].step.value.val
            /\ (~trace[k].step.bound /\ OutputName(k) \notin DOMAIN call_kwargs
                  /\ \A j \in 1..Len(trace) :
                        ~(trace[j].step.bound /\ trace[j].step.name.s = OutputName(k)))
                  => /\ OutputName(k) \notin DOMAIN kwargs
                     /\ handler_calls = 1 => OutputName(k) \notin DOMAIN handler_args.kwargs

(* the handler was invoked with an empty string bound under the key of the *)
(* last path segment, and with a decoded value bound under a var_name      *)
C11_Witness ==
    /\ pc = "func"
    /\ Len(trace) = 2
    /\ PassedValidation(1) /\ PassedValidation(2)
    /\ Declared[1].name = PyNone
    /\ trace[1].step.value.val = PyStr(<<>>)
    /\ handler_args.kwargs[kB] = PyStr(<<>>)
    /\ Declared[2].path = Path_j_c
    /\ handler_args.kwargs[<<"n">>] = PyInt(1)

(* the parameters among the first n processed that failed validation *)
RECURSIVE FailedUpTo(_)
FailedUpTo(n) ==
    IF n = 0 THEN <<>>
    ELSE IF FailedValidation(n) THEN Append(FailedUpTo(n - 1), n) ELSE FailedUpTo(n - 1)

(* the error strings of the k-th parameter for the value extracted for it *)
ErrorStrings(k) ==
    ValidatedParameter_validate(parameters[k], trace[k].step.value.val, group_errors).r.val

ValidationErrorResponse ==
    pc = "done" /\ response.kind = "failure" /\ response.body.message.is = "list"

(* C12: in a validation-error response every error group maps the output  *)
(* name of the failing parameter (var_name if given, otherwise the key of  *)
(* the last path segment without its annotation) to the ordered list of    *)
(* that parameter's error strings                                          *)
C12_GroupsKeyedByOutputName ==
    ValidationErrorResponse =>
        /\ Len(response.body.message.groups) = Len(FailedUpTo(Len(trace)))
        /\ \A j \in 1..Len(response.body.message.groups) :
              /\ response.body.message.groups[j].key = OutputName(FailedUpTo(Len(trace))[j])
              /\ response.body.message.groups[j].errors
                    = ErrorStrings(FailedUpTo(Len(trace))[j])

(* the k-th parameter was processed, its value was extracted and passed    *)
(* validation (whether or not binding it then raised)                      *)
ExtractedAndValid(k) ==
    /\ k <= Len(trace)
    /\ trace[k].step.value.ok
    /\ trace[k].step.errors = <<>>
    /\ trace[k].step.exc \in {"", "SyntaxError"}

(* C13: whenever the output name of a parameter is not a legal identifier  *)
(* (it contains a space, or is a keyword), the wrapper returns the generic *)
(* 400 response and does not invoke the handler; here for a parameter      *)
(* whose value was extracted and passed validation                         *)
C13_IllegalNameGives400 ==
    \A k \in 1..Len(parameters) :
        (ExtractedAndValid(k) /\ ~is_valid_variable_name(OutputName(k)))
            => /\ handler_calls = 0
               /\ pc = "done" => response = failure_message(ERROR_MESSAGE)

-----------------------------------------------------------------------------
DecodeDone == probe.op = "decode" /\ probe.n > 0

NoLog == <<>>

(* value[n] for a list or a str *)
ItemOf(value, n) ==
    IF value.t = "list"
    THEN IF n < Len(value.l) THEN Ok(value.l[n + 1]) ELSE Raise("IndexError")
    ELSE IF n < Len(value.s) THEN Ok(PyStr(<<value.s[n + 1]>>)) ELSE Raise("IndexError")

(* the annotations that have a decoder *)
HasDecoder(annotation) == IsDecimal(annotation) \/ annotation \in {JSON, JWT}

(* C14: decode agrees with the reference: without annotation the value is  *)
(* returned unchanged; an all-digit annotation n gives value[n], or an     *)
(* index error when n is out of range; "json" gives the JSON parse of the  *)
(* text, or a decode error on malformed text; an annotation that has no    *)
(* decoder logs "Missing decode function for annotation" and returns the   *)
(* value unchanged                                                         *)
C14_DecodeReference ==
    DecodeDone =>
        /\ (probe.annotation = PyNone \/ probe.annotation = PyStr(<<>>))
              => probe.out = [r |-> Ok(probe.value), log |-> NoLog]
        /\ (probe.annotation.t = "str" /\ IsDecimal(probe.annotation.s)
              /\ probe.value.t \in {"list", "str"})
              => probe.out = [r |-> ItemOf(probe.value, ToInt(probe.annotation.s)),
                              log |-> NoLog]
        /\ (probe.annotation = PyStr(JSON) /\ probe.value.t = "str")
              => probe.out = [r |-> JsonLoads(probe.value), log |-> NoLog]
        /\ (probe.annotation.t = "str" /\ probe.annotation.s # <<>>
              /\ ~HasDecoder(probe.annotation.s))
              => probe.out = [r |-> Ok(probe.value),
                              log |-> <<MissingDecodeLog(probe.annotation.s)>>]

-----------------------------------------------------------------------------
ParseDone == probe.op = "get_annotations_from_key" /\ probe.done

Bracket(c) == c \in {ANNOTATIONS_START, ANNOTATIONS_END}

BracketFree(s) == \A i \in 1..Len(s) : ~Bracket(s[i])

(* C15: get_annotations_from_key returns (segment, None) for a segment     *)
(* without annotation, and ("k", "ann") for a segment "k[ann]"             *)
C15_ParsesAnnotation ==
    ParseDone =>
        /\ BracketFree(probe.key)
              => probe.out = [real_key |-> probe.key, annotation |-> PyNone]
        /\ \A i \in 1..Len(probe.key) :
              (/\ probe.key[i] = ANNOTATIONS_START
               /\ probe.key[Len(probe.key)] = ANNOTATIONS_END
               /\ BracketFree(SubSeq(probe.key, 1, i - 1))
               /\ BracketFree(SubSeq(probe.key, i + 1, Len(probe.key) - 1)))
                  => probe.out = [real_key |-> SubSeq(probe.key, 1, i - 1),
                                  annotation |->
                                      PyStr(SubSeq(probe.key, i + 1, Len(probe.key) - 1))]

(* the segment "k[n]" was parsed into the key "k" and the annotation "n" *)
C15_Witness ==
    /\ ParseDone
    /\ probe.key = <<"k", ANNOTATIONS_START, "n", ANNOTATIONS_END>>
    /\ probe.out = [real_key |-> <<"k">>, annotation |-> PyStr(<<"n">>)]

(* the position of the first "[" of s, and of the first "]" after it; 0    *)
(* when there is none                                                      *)
FirstOpen(s) ==
    IF \E i \in 1..Len(s) : s[i] = ANNOTATIONS_START
    THEN CHOOSE i \in 1..Len(s) :
             s[i] = ANNOTATIONS_START /\ \A j \in 1..(i - 1) : s[j] # ANNOTATIONS_START
    ELSE 0

FirstCloseAfter(s, i) ==
    IF \E j \in (i + 1)..Len(s) : s[j] = ANNOTATIONS_END
    THEN CHOOSE j \in (i + 1)..Len(s) :
             s[j] = ANNOTATIONS_END /\ \A m \in (i + 1)..(j - 1) : s[m] # ANNOTATIONS_END
    ELSE 0

(* C16: for every segment the annotation returned is the text strictly     *)
(* between the first "[" and the first "]" that follows it; a segment      *)
(* whose brackets are unmatched or out of order has no annotation: the     *)
(* annotation is None and the key is the segment unchanged                 *)
C16_FirstBracketPair ==
    ParseDone =>
        IF FirstOpen(probe.key) # 0 /\ FirstCloseAfter(probe.key, FirstOpen(probe.key)) # 0
        THEN probe.out.annotation
                 = PyStr(SubSeq(probe.key, FirstOpen(probe.key) + 1,
                                FirstCloseAfter(probe.key, FirstOpen(probe.key)) - 1))
        ELSE probe.out = [real_key |-> probe.key, annotation |-> PyNone]

-----------------------------------------------------------------------------
SsmCalled == probe.op = "extract_from_ssm" /\ probe.called

(* the names the answer of the store holds *)
Answered ==
    IF probe.store.kind = "ok"
    THEN {probe.store.Parameters[i].Name : i \in 1..Len(probe.store.Parameters)}
    ELSE {}

Requested == {probe.ssm_parameters[i].ssm_name : i \in 1..Len(probe.ssm_parameters)}

(* C17: every {Name, Value} pair of the answer is bound to the variable    *)
(* name of the requested SSMParameter with that name, whatever the order   *)
(* of the answer; whenever a requested key is absent from the answer the   *)
(* wrapper raises and the handler is not invoked                           *)
C17_SsmBindsOrRaises ==
    SsmCalled =>
        IF Requested \subseteq Answered
        THEN handler_calls = 1 =>
                 \A i \in 1..Len(probe.ssm_parameters) :
                     handler_args.kwargs[probe.ssm_parameters[i].name.s]
                         = SsmValueOf(probe.ssm_parameters[i].ssm_name)
        ELSE handler_calls = 0 /\ response.kind = "raise"

-----------------------------------------------------------------------------
(* func raised probe.ex and the wrapper has dealt with it *)
FuncRaised ==
    probe.op = "handle_exceptions" /\ pc = "done" /\ func_outcome.kind = "raise"

(* the message of the response of the handler h for the exception ex *)
MessageOf(h, ex) == IF h.friendly_message # "" THEN h.friendly_message ELSE ex.str

(* C18: when the function raises an exception that is an instance of the   *)
(* exception type of a registered handler, the wrapper raises nothing and  *)
(* returns a failure response with the status code of such a handler and   *)
(* its friendly message, or str(exception) when it has none                *)
C18_RegisteredExceptionHandled ==
    (FuncRaised /\ ExceptTupleCatches(probe.handlers, probe.ex)) =>
        \E i \in 1..Len(probe.handlers) :
            /\ IsSubclass(probe.ex.class, probe.handlers[i].exception)
            /\ response = failure(MessageOf(probe.handlers[i], probe.ex),
                                  probe.handlers[i].status_code)


(* ---- cors ---- *)

(* the wrapper of cors has run after func returned *)
CorsDone == probe.op = "cors" /\ pc = "done" /\ func_outcome.kind = "return"

(* the four headers of cors with the option and the type of each *)
Configured ==
    {[name |-> ALLOW_ORIGIN, value |-> probe.opts.allow_origin, type |-> "str"],
     [name |-> ALLOW_METHODS, value |-> probe.opts.allow_methods, type |-> "str"],
     [name |-> ALLOW_HEADERS, value |-> probe.opts.allow_headers, type |-> "str"],
     [name |-> MAX_AGE, value |-> probe.opts.max_age, type |-> "int"]}

(* an option that is None or empty *)
NoneOrEmpty(v) == v = PyNone \/ v = PyStr(<<>>)

(* an option that is non-empty and of the right type *)
RightlySet(c) == ~NoneOrEmpty(c.value) /\ c.value.t = c.type

(* two header names that differ in letter case at most *)
SameHeader(a, b) == Upper(a) = Upper(b)

(* the key of the headers field in the response d, "headers" if none *)
HeadersKeyOf(d) ==
    IF \E k \in DOMAIN d : SameHeader(k, HEADERS)
    THEN CHOOSE k \in DOMAIN d : SameHeader(k, HEADERS) ELSE HEADERS

(* the headers of the response d, none when it has no headers field *)
HeadersOf(d) == IF HeadersKeyOf(d) \in DOMAIN d THEN d[HeadersKeyOf(d)].m ELSE <<>>

(* the response func returned is a dict whose headers, if any, are a dict *)
DictResponse ==
    /\ func_outcome.value.t = "dict"
    /\ \A k \in DOMAIN func_outcome.value.m :
           SameHeader(k, HEADERS) => func_outcome.value.m[k].t = "dict"

(* old value, comma, new value *)
AfterComma(old, new) == PyStr(Formatted(old) \o <<",">> \o Formatted(new))

(* the headers new are the headers old with the option c applied as cors   *)
(* is said to apply it                                                     *)
HeaderApplied(old, new, c) ==
    IF RightlySet(c)
    THEN IF \E k \in DOMAIN old : SameHeader(k, c.name)
         THEN \A k \in DOMAIN old :
                  SameHeader(k, c.name)
                  => k \in DOMAIN new /\ new[k] = AfterComma(old[k], c.value)
         ELSE c.name \in DOMAIN new /\ new[c.name] = c.value
    ELSE \A k \in DOMAIN old \cup DOMAIN new :
             SameHeader(k, c.name)
             => k \in DOMAIN old /\ k \in DOMAIN new /\ new[k] = old[k]

(* new holds the headers of old and those of the options set, no other,    *)
(* and the headers cors does not know are as they were                     *)
HeadersFramed(old, new) ==
    /\ DOMAIN old \subseteq DOMAIN new
    /\ DOMAIN new \subseteq DOMAIN old \cup {c.name : c \in {x \in Configured : RightlySet(x)}}
    /\ \A k \in DOMAIN old :
           (\A c \in Configured : ~SameHeader(k, c.name)) => new[k] = old[k]

(* the response after is the response before with new headers and every    *)
(* other field as it was                                                   *)
FieldsFramed(before, after) ==
    /\ DOMAIN after = DOMAIN before \cup {HeadersKeyOf(before)}
    /\ \A k \in DOMAIN before : k # HeadersKeyOf(before) => after[k] = before[k]
    /\ after[HeadersKeyOf(before)].t = "dict"

(* before and after are the response of func and the one of the wrapper *)
CorsApplied(before, after) ==
    /\ FieldsFramed(before, after)
    /\ HeadersFramed(HeadersOf(before), after[HeadersKeyOf(before)].m)
    /\ \A c \in Configured :
           HeaderApplied(HeadersOf(before), after[HeadersKeyOf(before)].m, c)

(* C19: when func returns a dict and every option of cors is None, empty   *)
(* or of the right type, the wrapper returns that dict where each header   *)
(* whose option is non-empty and of the right type holds the old value, a  *)
(* comma and the option under the key it had in whatever letter case, or   *)
(* is added under its lower-case name when the response had none; the      *)
(* header of an option that is None or empty is as it was, and so is every *)
(* other header and every other field of the response                      *)
C19_CorsSetsHeaders ==
    (CorsDone /\ DictResponse
     /\ \A c \in Configured : NoneOrEmpty(c.value) \/ RightlySet(c))
    => /\ response.kind = "return"
       /\ response.value.t = "dict"
       /\ CorsApplied(func_outcome.value.m, response.value.m)


(* ---- validate ---- *)

(* the wrapper of validate has run its checks in a call *)
ValidateRan == probe.op = "validate_decorator" /\ pc \in {"func", "done"}

(* every positional argument of the call has a name in the signature *)
ArgumentsNamed == Len(args) <= Len(ARG_SPEC)

(* the positions of the positional arguments that have a name *)
NamedPositions == {j \in 1..Len(args) : j <= Len(ARG_SPEC)}

(* the named arguments of the call *)
NamedArguments ==
    [n \in {ARG_SPEC[j] : j \in NamedPositions} \cup DOMAIN call_kwargs |->
        IF n \in DOMAIN call_kwargs THEN call_kwargs[n]
        ELSE args[CHOOSE j \in NamedPositions : ARG_SPEC[j] = n]]

(* checking the i-th ValidatedParameter raises: it names no argument of    *)
(* the call, or one of its validators raises                               *)
CheckRaises(i) ==
    \/ parameters[i].func_param_name \notin DOMAIN NamedArguments
    \/ ~ValidatedParameter_validate(parameters[i],
            NamedArguments[parameters[i].func_param_name], group_errors).r.ok

(* the error messages of the i-th ValidatedParameter for its argument *)
MessagesOf(i) ==
    ValidatedParameter_validate(parameters[i],
        NamedArguments[parameters[i].func_param_name], group_errors).r.val

(* the i-th ValidatedParameter fails: its argument breaks a validator *)
ParamFails(i) == ~CheckRaises(i) /\ MessagesOf(i) # <<>>

FailingParams == {i \in 1..Len(parameters) : ParamFails(i)}

ParamGroupOf(i) == [key |-> parameters[i].func_param_name, errors |-> MessagesOf(i)]

(* the groups of the failing parameters among the first n, in declaration  *)
(* order                                                                   *)
RECURSIVE ParamGroupsUpTo(_)
ParamGroupsUpTo(n) ==
    IF n = 0 THEN <<>>
    ELSE IF ParamFails(n) THEN Append(ParamGroupsUpTo(n - 1), ParamGroupOf(n))
    ELSE ParamGroupsUpTo(n - 1)

FirstFailingParam == CHOOSE i \in FailingParams : \A j \in FailingParams : i <= j

(* the arguments are collected and no check raises *)
NoCheckRaises ==
    /\ ArgumentsNamed
    /\ \A i \in 1..Len(parameters) : ~CheckRaises(i)

(* what the claim says of a call with a failing parameter, and of the      *)
(* handler                                                                 *)
ValidateAnswer ==
    /\ (FailingParams # {} /\ ~group_errors)
       => response = failure_errors(<<ParamGroupOf(FirstFailingParam)>>)
    /\ (FailingParams # {} /\ group_errors)
       => response = failure_errors(ParamGroupsUpTo(Len(parameters)))
    /\ handler_calls > 0 => FailingParams = {}
    /\ \A i \in 1..Len(probe.reached) : probe.reached[i] = i

(* C20: in a call of a handler decorated with validate in which no check   *)
(* raises, the ValidatedParameters are checked in declaration order        *)
(* against the named arguments; with group_errors false the wrapper        *)
(* returns statusCode 400 with the group of the first failing parameter    *)
(* alone, with group_errors true with a group for every failing parameter  *)
(* in declaration order, each keyed by func_param_name; the handler is     *)
(* invoked exactly when no parameter failed                                *)
C20_ValidateGroups ==
    (ValidateRan /\ NoCheckRaises)
    => /\ ValidateAnswer
       /\ FailingParams = {} => handler_calls = 1

(* a call with group_errors true in which two parameters failed *)
C20_Witness ==
    /\ ValidateRan /\ NoCheckRaises /\ group_errors
    /\ pc = "done"
    /\ Cardinality(FailingParams) >= 2
    /\ \E i \in 1..Len(parameters) : ~ParamFails(i)

(* C20 as claimed: in every call whose arguments have names, a failing     *)
(* parameter gives its group (the first alone, or all of them), and the    *)
(* handler is invoked only when no parameter failed                        *)
C20_AsClaimed == (ValidateRan /\ ArgumentsNamed) => ValidateAnswer


(* ---- the decode caches ---- *)

(* the decodes of SpecCache that followed the filling *)
CacheCalls == IF probe.op = "cache" THEN probe.calls ELSE <<>>

(* the j-th decode goes to the decoder of the i-th with the same text *)
SameDecode(i, j) ==
    /\ CacheCalls[i].annotation = CacheCalls[j].annotation
    /\ CacheCalls[i].text = CacheCalls[j].text

(* no earlier decode was of the text of the i-th, which was not cached *)
FirstDecode(i) ==
    /\ CacheCalls[i].r.ok
    /\ \A h \in 1..(i - 1) : ~SameDecode(h, i)
    /\ ~(CacheCalls[i].annotation = JSON
         /\ \E n \in 1..probe.filled : CacheCalls[i].text = PyStr(IntStr(n)))

(* the decoder ran in the i-th decode, the decoder did not run *)
WasMiss(i) ==
    /\ CacheCalls[i].after.misses = CacheCalls[i].before.misses + 1
    /\ CacheCalls[i].after.hits = CacheCalls[i].before.hits
WasHit(i) ==
    /\ CacheCalls[i].after.misses = CacheCalls[i].before.misses
    /\ CacheCalls[i].after.hits = CacheCalls[i].before.hits + 1
    /\ CacheCalls[i].after.currsize = CacheCalls[i].before.currsize

(* the first decode of a text is a miss, every later one a hit *)
MissThenHits(i) ==
    /\ WasMiss(i)
    /\ \A j \in (i + 1)..Len(CacheCalls) : SameDecode(i, j) => WasHit(j)

RECURSIVE JsonTextsBefore(_)
JsonTextsBefore(j) ==
    IF j = 1 THEN [n \in 1..probe.filled |-> PyStr(IntStr(n))]
    ELSE IF CacheCalls[j - 1].annotation = JSON /\ CacheCalls[j - 1].r.ok
         THEN Append(JsonTextsBefore(j - 1), CacheCalls[j - 1].text)
         ELSE JsonTextsBefore(j - 1)

(* the text of the j-th decode was decoded by the JSON decoder before *)
DecodedBefore(j) ==
    /\ CacheCalls[j].annotation = JSON
    /\ \E h \in 1..Len(JsonTextsBefore(j)) : JsonTextsBefore(j)[h] = CacheCalls[j].text

(* the other texts decoded since the text of the j-th decode was last      *)
(* decoded                                                                 *)
LastDecodeOf(j) ==
    CHOOSE h \in 1..Len(JsonTextsBefore(j)) :
        /\ JsonTextsBefore(j)[h] = CacheCalls[j].text
        /\ \A g \in (h + 1)..Len(JsonTextsBefore(j)) :
               JsonTextsBefore(j)[g] # CacheCalls[j].text
OthersSince(j) ==
    {JsonTextsBefore(j)[g] : g \in (LastDecodeOf(j) + 1)..Len(JsonTextsBefore(j))}

(* C23: a text that was decoded is served from the cache, the decoder not  *)
(* run, as long as fewer than 128 other texts were decoded since it was    *)
(* last decoded; after 128 others its entry is gone and the decoder runs   *)
(* again                                                                   *)
C23_EntryKeptWhileRecent ==
    \A j \in 1..Len(CacheCalls) :
        DecodedBefore(j)
        => IF Cardinality(OthersSince(j)) < LRU_MAXSIZE THEN WasHit(j) ELSE WasMiss(j)

(* a text decoded again after more than a hundred other texts *)
C23_Witness ==
    \E j \in 1..Len(CacheCalls) :
        DecodedBefore(j) /\ WasHit(j) /\ Cardinality(OthersSince(j)) > 100

(* C23 as claimed: a text that was decoded is served from the cache        *)
(* whatever was decoded since                                              *)
C23_AsClaimed ==
    \A j \in 1..Len(CacheCalls) : DecodedBefore(j) => WasHit(j)


(* ---- handlers that share Parameter objects ---- *)

(* the invocations so far of the handlers of SpecShared *)
History == IF probe.op = "shared" THEN probe.history ELSE <<>>

(* C22: the Parameter objects are as they were constructed, whatever       *)
(* decorators were applied and whatever invocations ran                    *)
C22_ParametersAsConstructed == probe.op = "shared" => parameters = probe.constructed

(* the Parameter objects as constructed, read from the source arguments    *)
(* they were read from in the j-th invocation                              *)
FreshParameters(j) ==
    [n \in 1..Len(probe.constructed) |->
        [probe.constructed[n] EXCEPT !.func_param_name = History[j].sources[n]]]

(* what the j-th invocation returns when it runs alone: the caches empty,  *)
(* the Parameter objects never used                                        *)
AloneResponse(j) ==
    HandlerReturns(ExtractWrapper(FreshParameters(j), group_errors, allow_none_defaults,
                                  EmptyCache, EmptyCache, History[j].call))

ArgumentsOf(j) == all_func_args(History[j].call.args, History[j].call.kwargs).val

JsonTexts == {PyStr(TXT_OBJ), PyStr(TXT_EMPTY_OBJ)}

(* C28: in every invocation the value handed to the handler for a path     *)
(* annotated with [json] is the JSON parse of the text in the arguments of *)
(* that invocation, whatever the handlers of earlier invocations did       *)
C28_HandedTheParseOfOwnText ==
    \A j \in 1..Len(History) : \A n \in 1..Len(probe.constructed) : \A t \in JsonTexts :
        (History[j].invoked /\ BindsCachedObject(FreshParameters(j)[n], ArgumentsOf(j), t))
        => /\ kJ \in DOMAIN History[j].given
           /\ History[j].given[kJ] = JsonLoads(t).val

(* C29: whenever a handler decorated with extract_from_event is invoked,   *)
(* its parameters are read from the argument named event, and those of a   *)
(* handler decorated with extract_from_context from the one named context, *)
(* whatever was decorated since                                            *)
C29_ReadsFromOwnArgument ==
    \A j \in 1..Len(History) : \A n \in 1..Len(History[j].sources) :
        History[j].sources[n] =
            IF probe.handlers[History[j].handler].decorator = "extract_from_event"
            THEN PyStr(EVENT) ELSE PyStr(CONTEXT)

(* ---- exceptions of the wrapper of validate ---- *)

(* a check that raises is reached: the checks before it raise nothing and, *)
(* unless the errors are grouped, find nothing                             *)
RaisingCheckReached ==
    \E i \in 1..Len(parameters) :
        /\ CheckRaises(i)
        /\ \A h \in 1..(i - 1) : ~CheckRaises(h) /\ (group_errors \/ ~ParamFails(h))

(* C26: when resolving the arguments of the handler raises, or a check     *)
(* that is reached raises, the wrapper of validate returns statusCode 400  *)
(* with the message "Error extracting parameters" and does not invoke the  *)
(* handler                                                                 *)
C26_ValidateExceptionsGive400 ==
    (ValidateRan /\ (~ArgumentsNamed \/ RaisingCheckReached))
    => /\ response = failure_message(ERROR_MESSAGE)
       /\ handler_calls = 0


(* ---- values that are present but None or empty ---- *)

(* the k-th parameter processed reads a path of at least one key from an   *)
(* argument of the call                                                    *)
ReadsPath(k) ==
    /\ Declared[k].func_param_name.t = "str"
    /\ Declared[k].func_param_name.s \in DOMAIN arg_dictionary
    /\ Declared[k].path.t = "str"
    /\ PathKeys(Declared[k].path.s) # <<>>

(* the walk of the source argument along the path of the k-th parameter *)
SourceWalk(k) ==
    PathWalk(arg_dictionary[Declared[k].func_param_name.s],
             PathKeys(Declared[k].path.s), 1)

HasMandatory(k) ==
    \E v \in 1..Len(Declared[k].validators) : Declared[k].validators[v].kind = "Mandatory"

(* C27: when every key of the path is present, the value extracted is the  *)
(* value found, be it None or the empty string, and not the default; it is *)
(* validated as such: a parameter with the Mandatory validator whose value *)
(* is present but None or empty fails validation and is not bound,         *)
(* whatever its default                                                    *)
C27_PresentValueNotDefaulted ==
    \A k \in 1..Len(trace) :
        (ReadsPath(k) /\ SourceWalk(k).kind = "end")
        => /\ trace[k].step.value = Ok(SourceWalk(k).val)
           /\ (HasMandatory(k) /\ SourceWalk(k).val \in {PyNone, PyStr(<<>>)})
              => /\ FailedValidation(k)
                 /\ ~trace[k].step.bound
                 /\ (~group_errors /\ pc = "done") => response.kind = "failure"

(* a call whose event holds the empty string under the path of a Mandatory *)
(* parameter with the default "d" ended in a 400                           *)
C27_Witness ==
    /\ pc = "done" /\ Len(trace) >= 1
    /\ ReadsPath(1) /\ SourceWalk(1) = WalkOf("end", 3, PyStr(<<>>))
    /\ Declared[1].default = PyStr(<<"d">>)
    /\ HasMandatory(1)
    /\ response.kind = "failure" /\ response.statusCode = BAD_REQUEST
    /\ handler_calls = 0


(* ---- an exception after validation errors, with group_errors ---- *)

(* a parameter failed validation and a later one raised *)
RaisedAfterFailure ==
    \E j, k \in 1..Len(trace) : j < k /\ FailedValidation(j) /\ RaisedAt(k)

(* the response is a 400 whose message is a list of error groups *)
ReturnsGroups ==
    /\ response.kind = "failure"
    /\ response.body.message.is = "list"

(* C30: with group_errors=True, when a later parameter raises after        *)
(* earlier parameters failed validation, the wrapper returns the generic   *)
(* 400 "Error extracting parameters" and none of the collected groups, and *)
(* the handler is not invoked; the groups are returned only when every     *)
(* parameter was processed without an exception                            *)
C30_ExceptionDiscardsGroups ==
    (group_errors /\ pc = "done") =>
        /\ RaisedAfterFailure
              => /\ response = failure_message(ERROR_MESSAGE)
                 /\ handler_calls = 0
        /\ ReturnsGroups
              => /\ ~RaisedInTry
                 /\ Len(trace) = Len(parameters)
                 /\ response = failure_errors(GroupsUpTo(Len(trace)))

(* the first parameter failed validation, the second raised, and the call  *)
(* ended in the generic 400                                                *)
C30_Witness ==
    /\ group_errors /\ pc = "done"
    /\ Len(trace) = 2 /\ Len(parameters) > 2
    /\ FailedValidation(1) /\ RaisedAt(2)
    /\ response = failure_message(ERROR_MESSAGE)
    /\ handler_calls = 0


(* ---- invocations in concurrent threads ---- *)

ThreadsRun == IF probe.op = "threads" THEN probe.threads ELSE <<>>

(* what the wrapper of the thread does when it runs alone: the caches      *)
(* empty, the Parameter objects as decorated and not yet used              *)
AloneThread(t) ==
    ExtractWrapper(probe.constructed, group_errors, allow_none_defaults,
                   EmptyCache, EmptyCache, ThreadsRun[t].call)

(* the entries of a cache, whatever their order *)
EntriesOf(cache) == {cache.entries[e] : e \in 1..Len(cache.entries)}

(* a cache holds at most one entry per text, and each entry holds what the *)
(* decoder gives for its text                                              *)
OneEntryPerText(cache, annotation) ==
    /\ \A e, f \in 1..Len(cache.entries) :
           cache.entries[e].key = cache.entries[f].key => e = f
    /\ \A e \in 1..Len(cache.entries) :
           DecoderResult(annotation, cache.entries[e].key) = Ok(cache.entries[e].val)

AllThreadsDone == \A t \in DOMAIN ThreadsRun : ThreadsRun[t].at = "done"

=============================================================================
